---- MODULE Spec2Model ----
(***************************************************************************)
(* Model of the query/aggregation layer of the activity tracker dashboard  *)
(* (lib/db/queries): the date-window hourly aggregation with idle          *)
(* subtraction (getTrackerHourlyActivityForDate), the days-back hourly     *)
(* table (getTrackerHourlyActivity), the focus-session detector            *)
(* (getFocusSessions) and the stats summarizer (getTrackerStatsForDate,    *)
(* getTrackerStats).                                                       *)
(*                                                                         *)
(* Instants are integers: milliseconds since the epoch, as Date.getTime()  *)
(* returns them.  Local time is taken equal to UTC, so a calendar hour is  *)
(* a multiple of MsPerHour and a calendar day a multiple of MsPerDay.  A    *)
(* date (the "YYYY-MM-DD" argument) is the number of its day.  An hour key *)
(* "YYYY-MM-DD HH:00" is the pair <<day, hour of day>>.                    *)
(*                                                                         *)
(* The timestamp columns hold text.  A text is modelled by an integer that *)
(* keeps the order of the strings (the order SQL compares and sorts them   *)
(* in): a well-formed ISO text by its instant, which in the stores is a    *)
(* whole number of seconds, and a text that does not parse as a date, such *)
(* as "1970-01-01T00:07:3x", by the instant of its well-formed beginning   *)
(* plus one.  new Date(text).getTime() of such a text is NaN.              *)
(***************************************************************************)
EXTENDS Integers, Sequences, FiniteSets, TLC

VARIABLES
    activity_log,      \* table activity_log: a set of rows
    idle_periods,      \* table idle_periods: a set of rows
    input_metrics,     \* table input_metrics: a set of rows
    call,              \* the last query made and its argument
    results,           \* getTrackerHourlyActivityForDate: the activity rows as fetched
    idleRows,          \* getTrackerHourlyActivityForDate: the idle rows as fetched
    hourlyData,        \* getTrackerHourlyActivityForDate: the table returned
    previousHourly,    \* the table the preceding call returned for the same date, boxed
    metrics,           \* getFocusSessions: the samples as fetched
    focusSessions,     \* getFocusSessions: the list returned
    stats,             \* getTrackerStatsForDate / getTrackerStats: the object returned, boxed
    idleDistribution,  \* getIdleDistributionForDate: the list returned
    trackerDb,         \* lib/db/index: the module's connection, 0 while it is undefined
    connections,       \* the connections opened so far: connections[id] is "open" or "closed"
    selectedDate,      \* a date-driven component: its prop (NULL while none is mounted)
    loading,           \* the component's loading flag
    displayed,         \* the date of the data the component shows, boxed (<<>>: none yet)
    inFlight,          \* the fetches of the component that have not been answered
    splitArgs,         \* the arguments of a call of splitByIdle / addRangeToMap
    splitOut           \* what that call produced

vars == <<activity_log, idle_periods, input_metrics, call, results, idleRows,
          hourlyData, previousHourly, metrics, focusSessions, stats, idleDistribution,
          trackerDb, connections, selectedDate, loading, displayed, inFlight,
          splitArgs, splitOut>>

\* the variables of lib/db/index and those of a component
dbVars == <<trackerDb, connections>>
uiVars == <<selectedDate, loading, displayed, inFlight>>

----------------------------------------------------------------------------
(* Units and SQL NULL *)

MsPerSecond == 1000
MsPerHour == 3600000
MsPerDay == 86400000
\* SQL NULL / JavaScript null in a timestamp column (instants are >= 0)
NULL == -1
\* the number NaN (instants, gaps and durations are >= 0)
NaN == -2

\* let trackerDb: undefined until the first getTrackerDb()
NoConnection == trackerDb = 0 /\ connections = <<>>
\* no component is mounted
NoComponent == selectedDate = NULL /\ loading = FALSE /\ displayed = <<>> /\ inFlight = {}

\* a value of the duration column that is not a number: a text
NotNumeric == -3

\* a timestamp text that new Date() does not parse
Malformed(text) == text # NULL /\ text % MsPerSecond = 1
\* mutant of GetTime: a malformed text is read as the instant it begins with
GetTimeLenient(text) == text

\* new Date(text).getTime()
GetTime(text) == IF Malformed(text) THEN NaN ELSE text
\* a - b and a < b on numbers that may be NaN
Minus(a, b) == IF a = NaN \/ b = NaN THEN NaN ELSE a - b
LessThan(a, b) == a # NaN /\ b # NaN /\ a < b

----------------------------------------------------------------------------
(* Generic helpers *)

Range(f) == {f[i] : i \in DOMAIN f}

\* every sequence that lists the rows of S once each: the orders in which a
\* SELECT without ORDER BY may return them
Orderings(S) ==
    {f \in [1..Cardinality(S) -> S] : \A i, j \in 1..Cardinality(S) : i # j => f[i] # f[j]}

\* the subsets of S of at most n elements
UpTo(S, n) == UNION {{Range(f) : f \in [1..k -> S]} : k \in 0..n}

\* the same, for a small S and a large n
AtMost(S, n) == {T \in SUBSET S : Cardinality(T) <= n}

RECURSIVE SumSeq(_)
SumSeq(s) == IF s = <<>> THEN 0 ELSE Head(s) + SumSeq(Tail(s))

RECURSIVE SetToSeq(_)
SetToSeq(S) == IF S = {} THEN <<>> ELSE LET x == CHOOSE y \in S : TRUE
                                        IN <<x>> \o SetToSeq(S \ {x})

SumOverSet(S, F(_)) == LET q == SetToSeq(S) IN SumSeq([i \in DOMAIN q |-> F(q[i])])

----------------------------------------------------------------------------
(* getTrackerHourlyActivityForDate: the window and the two SELECTs *)

StartOfDay(date) == date * MsPerDay
EndOfDay(date) == date * MsPerDay + (MsPerDay - 1)

\* WHERE timestamp >= ? AND timestamp <= ?
ActivityInWindow(row, date) ==
    row.timestamp >= StartOfDay(date) /\ row.timestamp <= EndOfDay(date)

\* WHERE start_time >= ? AND start_time <= ? AND end_time IS NOT NULL
IdleInWindow(row, date) ==
    /\ row.start_time >= StartOfDay(date)
    /\ row.start_time <= EndOfDay(date)
    /\ row.end_time # NULL

(* idleRanges: map, filter, map, sort *)

IdleRowToRange(row) ==
    [start |-> IF row.start_time # NULL THEN GetTime(row.start_time) ELSE NULL,
     end |-> IF row.end_time # NULL THEN GetTime(row.end_time) ELSE NULL]

\* mutant of IdleRangeValid: a range that ends before it starts is kept
IdleRangeValidAnyOrder(range) ==
    range.start # NULL /\ range.end # NULL

IdleRangeValid(range) ==
    range.start # NULL /\ range.end # NULL /\ LessThan(range.start, range.end)

\* Array.prototype.sort is stable: x goes before the first element that the
\* comparator puts strictly after it
RECURSIVE InsertByStart(_, _)
InsertByStart(x, sorted) ==
    IF sorted = <<>> THEN <<x>>
    ELSE IF Head(sorted).start - x.start > 0 THEN <<x>> \o sorted
    ELSE <<Head(sorted)>> \o InsertByStart(x, Tail(sorted))

RECURSIVE SortByStart(_)
SortByStart(s) ==
    IF s = <<>> THEN <<>>
    ELSE InsertByStart(s[Len(s)], SortByStart(SubSeq(s, 1, Len(s) - 1)))

IdleRanges(rows) ==
    SortByStart(SelectSeq([i \in DOMAIN rows |-> IdleRowToRange(rows[i])], IdleRangeValid))

----------------------------------------------------------------------------
(* splitByIdle *)

\* mutant of SubtractIdle: the part of a segment after the idle range is lost
RECURSIVE SubtractIdleLeftOnly(_, _)
SubtractIdleLeftOnly(segments, idle) ==
    IF segments = <<>> THEN <<>>
    ELSE LET segment == Head(segments)
             rest == SubtractIdleLeftOnly(Tail(segments), idle)
         IN IF idle.end <= segment.start \/ idle.start >= segment.end
            THEN <<segment>> \o rest
            ELSE (IF idle.start > segment.start
                  THEN <<[start |-> segment.start, end |-> idle.start]>> ELSE <<>>)
                 \o rest

\* mutant of SubtractIdle: the idle range is taken out of the first segment only
SubtractIdleFirstOnly(segments, idle) ==
    IF segments = <<>> THEN <<>>
    ELSE LET segment == Head(segments)
         IN IF idle.end <= segment.start \/ idle.start >= segment.end
            THEN segments
            ELSE (IF idle.start > segment.start
                  THEN <<[start |-> segment.start, end |-> idle.start]>> ELSE <<>>)
                 \o (IF idle.end < segment.end
                     THEN <<[start |-> idle.end, end |-> segment.end]>> ELSE <<>>)
                 \o Tail(segments)

\* the inner loop: one idle range taken out of every segment
RECURSIVE SubtractIdle(_, _)
SubtractIdle(segments, idle) ==
    IF segments = <<>> THEN <<>>
    ELSE LET segment == Head(segments)
             rest == SubtractIdle(Tail(segments), idle)
         IN IF idle.end <= segment.start \/ idle.start >= segment.end
            THEN <<segment>> \o rest
            ELSE (IF idle.start > segment.start
                  THEN <<[start |-> segment.start, end |-> idle.start]>> ELSE <<>>)
                 \o (IF idle.end < segment.end
                     THEN <<[start |-> idle.end, end |-> segment.end]>> ELSE <<>>)
                 \o rest

\* the outer loop, with its early exit when no segment is left
RECURSIVE SplitLoop(_, _)
SplitLoop(segments, idles) ==
    IF idles = <<>> THEN segments
    ELSE LET nextSegments == SubtractIdle(segments, Head(idles))
         IN IF Len(nextSegments) = 0 THEN nextSegments
            ELSE SplitLoop(nextSegments, Tail(idles))

PositiveLength(segment) == segment.end > segment.start

\* mutant of splitByIdle: nothing is taken out of the segment
splitByIdleWhole(idleRanges, segmentStart, segmentEnd) ==
    <<[start |-> segmentStart, end |-> segmentEnd]>>

splitByIdle(idleRanges, segmentStart, segmentEnd) ==
    SelectSeq(SplitLoop(<<[start |-> segmentStart, end |-> segmentEnd]>>, idleRanges),
              PositiveLength)

----------------------------------------------------------------------------
(* formatHour, the hour of an instant, and maps in insertion order *)

formatHour(dateValue) == <<dateValue \div MsPerDay, (dateValue % MsPerDay) \div MsPerHour>>

\* setMinutes(0, 0, 0)
HourStart(cursor) == cursor - (cursor % MsPerHour)
\* mutant of HourEnd: the hour is not advanced
HourEndSame(hourStart) == hourStart

\* setHours(getHours() + 1)
HourEnd(hourStart) == hourStart + MsPerHour

\* a Map is the sequence of its entries [key, value] in insertion order
MapHas(map, key) == \E i \in DOMAIN map : map[i].key = key
MapGet(map, key, default) ==
    IF MapHas(map, key) THEN map[CHOOSE i \in DOMAIN map : map[i].key = key].value
    ELSE default
MapSet(map, key, value) ==
    IF MapHas(map, key)
    THEN [i \in DOMAIN map |-> IF map[i].key = key THEN [key |-> key, value |-> value]
                                                    ELSE map[i]]
    ELSE Append(map, [key |-> key, value |-> value])

----------------------------------------------------------------------------
(* addRangeToMap *)

\* mutant of AddRangePieces: the piece is not cut at the end of the range
RECURSIVE AddRangePiecesUncut(_, _)
AddRangePiecesUncut(cursor, rangeEnd) ==
    IF ~(cursor < rangeEnd) THEN <<>>
    ELSE LET hourStart == HourStart(cursor)
             hourEnd == HourEnd(hourStart)
         IN <<[hourKey |-> formatHour(hourStart), start |-> cursor, end |-> hourEnd]>>
            \o AddRangePiecesUncut(hourEnd, rangeEnd)

\* the pieces the cursor loop of addRangeToMap credits, in order
RECURSIVE AddRangePieces(_, _)
AddRangePieces(cursor, rangeEnd) ==
    IF ~(cursor < rangeEnd) THEN <<>>
    ELSE LET hourStart == HourStart(cursor)
             hourEnd == HourEnd(hourStart)
             segmentEnd == IF rangeEnd < hourEnd THEN rangeEnd ELSE hourEnd
             durationMs == segmentEnd - cursor
         IN (IF durationMs > 0
             THEN <<[hourKey |-> formatHour(hourStart), start |-> cursor, end |-> segmentEnd]>>
             ELSE <<>>)
            \o AddRangePieces(segmentEnd, rangeEnd)

\* map.set(hourKey, (map.get(hourKey) || 0) + durationMs / 1000); a value of
\* the map is held in thousandths of a second, so no fraction is lost
RECURSIVE AddPieces(_, _)
AddPieces(map, pieces) ==
    IF pieces = <<>> THEN map
    ELSE LET p == Head(pieces)
         IN AddPieces(MapSet(map, p.hourKey, MapGet(map, p.hourKey, 0) + (p.end - p.start)),
                      Tail(pieces))

addRangeToMap(map, rangeStart, rangeEnd) ==
    AddPieces(map, AddRangePieces(rangeStart, rangeEnd))

----------------------------------------------------------------------------
(* the loop over the activity rows *)

\* typeof row.duration === 'number' ? row.duration : 0
DurationSeconds(row) ==
    IF row.duration # NULL /\ row.duration # NotNumeric THEN row.duration ELSE 0

\* if (!row.timestamp || durationSeconds <= 0) continue; a timestamp that is
\* null or the empty text is NULL here
RowSkipped(row) == row.timestamp = NULL \/ DurationSeconds(row) <= 0

\* new Date(row.timestamp), and new Date(start.getTime() + durationSeconds * 1000)
RowStart(row) == GetTime(row.timestamp)
RowEnd(row) ==
    IF RowStart(row) = NaN THEN NaN ELSE RowStart(row) + DurationSeconds(row) * MsPerSecond

\* the while loop over one row: the segments [cursor, segmentEnd) handed to splitByIdle
RECURSIVE HourSegments(_, _)
HourSegments(cursor, end) ==
    IF ~LessThan(cursor, end) THEN <<>>
    ELSE LET hourStart == HourStart(cursor)
             hourEnd == HourEnd(hourStart)
             segmentEnd == IF end < hourEnd THEN end ELSE hourEnd
         IN IF segmentEnd <= cursor THEN <<>>
            ELSE <<[start |-> cursor, end |-> segmentEnd]>> \o HourSegments(segmentEnd, end)

\* row.app_name || 'Unknown'
AppLabel(row) == IF row.app_name = "" THEN "Unknown" ELSE row.app_name

\* the loop over activeSegments: appHourlyMap is a Map from appName to a Map
\* from hourKey to seconds
RECURSIVE CreditActive(_, _, _)
CreditActive(appHourlyMap, appName, activeSegments) ==
    IF activeSegments = <<>> THEN appHourlyMap
    ELSE LET active == Head(activeSegments)
             segmentMs == active.end - active.start
         IN IF segmentMs <= 0
            THEN CreditActive(appHourlyMap, appName, Tail(activeSegments))
            ELSE LET hourKey == formatHour(active.start)
                     hourMap == MapGet(appHourlyMap, appName, <<>>)
                     newHourMap == MapSet(hourMap, hourKey, MapGet(hourMap, hourKey, 0) + segmentMs)
                 IN CreditActive(MapSet(appHourlyMap, appName, newHourMap), appName,
                                 Tail(activeSegments))

RECURSIVE CreditSegments(_, _, _, _)
CreditSegments(appHourlyMap, appName, segments, idleRanges) ==
    IF segments = <<>> THEN appHourlyMap
    ELSE CreditSegments(
             CreditActive(appHourlyMap, appName,
                          splitByIdle(idleRanges, Head(segments).start, Head(segments).end)),
             appName, Tail(segments), idleRanges)

CreditRow(appHourlyMap, row, idleRanges) ==
    IF RowSkipped(row) THEN appHourlyMap
    ELSE CreditSegments(appHourlyMap, AppLabel(row),
                        HourSegments(RowStart(row), RowEnd(row)), idleRanges)

RECURSIVE CreditRows(_, _, _)
CreditRows(appHourlyMap, rows, idleRanges) ==
    IF rows = <<>> THEN appHourlyMap
    ELSE CreditRows(CreditRow(appHourlyMap, Head(rows), idleRanges), Tail(rows), idleRanges)

\* idleRanges.forEach((idle) => addRangeToMap(idleHourlyMap, idle.start, idle.end))
RECURSIVE CreditIdle(_, _)
CreditIdle(idleHourlyMap, idleRanges) ==
    IF idleRanges = <<>> THEN idleHourlyMap
    ELSE CreditIdle(addRangeToMap(idleHourlyMap, Head(idleRanges).start, Head(idleRanges).end),
                    Tail(idleRanges))

----------------------------------------------------------------------------
(* hourlyData and its sort *)

\* Math.round of a number of seconds held in thousandths
MathRound(thousandths) == (thousandths + 500) \div MsPerSecond

HourRows(hourMap, appName) ==
    [i \in DOMAIN hourMap |->
        [hour |-> hourMap[i].key, appName |-> appName, duration |-> MathRound(hourMap[i].value)]]

RECURSIVE AppRows(_)
AppRows(appHourlyMap) ==
    IF appHourlyMap = <<>> THEN <<>>
    ELSE HourRows(Head(appHourlyMap).value, Head(appHourlyMap).key) \o AppRows(Tail(appHourlyMap))

PositiveValue(entry) == entry.value > 0

IdleOutRows(idleHourlyMap) == HourRows(SelectSeq(idleHourlyMap, PositiveValue), "Idle")

\* a.hour.localeCompare(b.hour) on "YYYY-MM-DD HH:00"
HourCompare(h1, h2) ==
    IF h1 = h2 THEN 0
    ELSE IF h1[1] < h2[1] \/ (h1[1] = h2[1] /\ h1[2] < h2[2]) THEN -1 ELSE 1

\* mutant of HourlyCompare: rows of one hour are not ordered by duration
HourlyCompareHourOnly(a, b) ==
    HourCompare(a.hour, b.hour)

HourlyCompare(a, b) ==
    IF a.hour = b.hour THEN b.duration - a.duration ELSE HourCompare(a.hour, b.hour)

RECURSIVE InsertHourly(_, _)
InsertHourly(x, sorted) ==
    IF sorted = <<>> THEN <<x>>
    ELSE IF HourlyCompare(Head(sorted), x) > 0 THEN <<x>> \o sorted
    ELSE <<Head(sorted)>> \o InsertHourly(x, Tail(sorted))

RECURSIVE SortHourly(_)
SortHourly(s) ==
    IF s = <<>> THEN <<>>
    ELSE InsertHourly(s[Len(s)], SortHourly(SubSeq(s, 1, Len(s) - 1)))

\* the body of getTrackerHourlyActivityForDate after its two SELECTs
HourlyActivityOf(fetchedActivity, fetchedIdle) ==
    LET idleRanges == IdleRanges(fetchedIdle)
        appHourlyMap == CreditRows(<<>>, fetchedActivity, idleRanges)
        idleHourlyMap == CreditIdle(<<>>, idleRanges)
    IN SortHourly(AppRows(appHourlyMap) \o IdleOutRows(idleHourlyMap))

----------------------------------------------------------------------------
(* The stores and dates the hourly aggregation is run on: at most MaxRows   *)
(* rows in the two tables together, around the midnight between day 0 and  *)
(* day 1, on a half-hour grid.                                              *)

MaxRows == 3

HalfHour == MsPerHour \div 2
QuarterHour == MsPerHour \div 4
Midnight == StartOfDay(1)
Dates == {0, 1}
ActivityTimes == {Midnight + k * HalfHour : k \in -2..0}
\* timestamps that are no instant: missing or empty, and a text of day 0 that does not parse
NoTimestamps == {NULL, Midnight - HalfHour + 1}
ActivityRows ==
    [timestamp : ActivityTimes, app_name : {"editor.exe"}, duration : {1800, 3600, 0, -1800, NULL}]
    \cup [timestamp : ActivityTimes, app_name : {"chrome.exe"}, duration : {1800, NotNumeric}]
    \cup [timestamp : NoTimestamps, app_name : {"editor.exe"}, duration : {1800}]
IdleStarts == {Midnight + k * HalfHour : k \in -1..1}
\* an idle row ends a half hour or an hour after it starts, or is still in
\* progress, or is invalid (ends when it starts, or a quarter hour before)
IdleEndsOf(start) ==
    {NULL, start - QuarterHour, start, start + HalfHour, start + 2 * HalfHour}
IdleRowsOfStore ==
    UNION {[start_time : {start}, end_time : IdleEndsOf(start)] : start \in IdleStarts}

NoCall == [name |-> "none"]

InitHourly ==
    /\ activity_log \in UpTo(ActivityRows, MaxRows)
    /\ idle_periods \in UpTo(IdleRowsOfStore, MaxRows - Cardinality(activity_log))
    /\ input_metrics = {}
    /\ call = NoCall
    /\ results = <<>>
    /\ idleRows = <<>>
    /\ hourlyData = <<>>
    /\ previousHourly = <<>>
    /\ metrics = <<>>
    /\ focusSessions = <<>>
    /\ stats = <<>>
    /\ idleDistribution = <<>>
    /\ NoConnection
    /\ NoComponent
    /\ splitArgs = <<>>
    /\ splitOut = <<>>

\* one call of getTrackerHourlyActivityForDate(date); neither SELECT has an
\* ORDER BY, so the rows arrive in some order
GetTrackerHourlyActivityForDate(date) ==
    \E fetchedActivity \in Orderings({r \in activity_log : ActivityInWindow(r, date)}) :
    \E fetchedIdle \in Orderings({r \in idle_periods : IdleInWindow(r, date)}) :
        /\ results' = fetchedActivity
        /\ idleRows' = fetchedIdle
        /\ hourlyData' = HourlyActivityOf(fetchedActivity, fetchedIdle)
        /\ previousHourly' = IF call.name = "hourly" /\ call.date = date
                             THEN <<hourlyData>> ELSE <<>>
        /\ call' = [name |-> "hourly", date |-> date]
        /\ UNCHANGED <<activity_log, idle_periods, input_metrics, metrics, focusSessions,
                       stats, idleDistribution, dbVars, uiVars, splitArgs, splitOut>>

(* getTrackerHourlyActivity: one SELECT that groups and sums *)

\* WHERE timestamp >= ? (false of NULL)
ActivitySince(row, cutoff) == row.timestamp # NULL /\ row.timestamp >= cutoff

\* strftime('%Y-%m-%d %H:00', timestamp): NULL of a text that is no date
SqlHour(text) == IF Malformed(text) THEN <<NULL, NULL>> ELSE formatHour(text)

\* SUM(duration) over a group: NULL values are left out (the sum is NULL when
\* nothing is left) and a text counts as 0
SqlSum(rows) ==
    LET valued == {r \in rows : r.duration # NULL}
        Value(r) == IF r.duration = NotNumeric THEN 0 ELSE r.duration
    IN IF valued = {} THEN NULL ELSE SumOverSet(valued, Value)

\* GROUP BY hour, app_name
HourAppGroups(rows) ==
    {[hour |-> g[1], appName |-> g[2],
      duration |-> SqlSum({r \in rows : SqlHour(r.timestamp) = g[1] /\ r.app_name = g[2]})]
        : g \in {<<SqlHour(r.timestamp), r.app_name>> : r \in rows}}

\* ORDER BY hour DESC, total_duration DESC (NULL sorts as the smallest value;
\* rows equal on both keys come in either order)
DescByHourThenTotal(q) ==
    \A i \in 1..(Len(q) - 1) :
        \/ HourCompare(q[i].hour, q[i + 1].hour) > 0
        \/ q[i].hour = q[i + 1].hour /\ q[i].duration >= q[i + 1].duration

\* one call of getTrackerHourlyActivity(daysBack), cutoff being the instant
\* daysBack days ago
GetTrackerHourlyActivity(cutoff) ==
    \E table \in {q \in Orderings(HourAppGroups({r \in activity_log : ActivitySince(r, cutoff)}))
                    : DescByHourThenTotal(q)} :
        /\ hourlyData' = table
        /\ results' = <<>>
        /\ idleRows' = <<>>
        /\ previousHourly' = <<>>
        /\ call' = [name |-> "hourlyDaysBack", cutoff |-> cutoff]
        /\ UNCHANGED <<activity_log, idle_periods, input_metrics, metrics, focusSessions,
                       stats, idleDistribution, dbVars, uiVars, splitArgs, splitOut>>

DaysBackCutoffs == {0, Midnight - HalfHour}

NextHourly ==
    \/ \E date \in Dates : GetTrackerHourlyActivityForDate(date)
    \/ \E cutoff \in DaysBackCutoffs : GetTrackerHourlyActivity(cutoff)

Spec == InitHourly /\ [][NextHourly]_vars

----------------------------------------------------------------------------
(* What the hourly table should hold, stated on instants: an instant t is  *)
(* credited to the hour it lies in.  The instants are measured in cells:   *)
(* the intervals between consecutive points of a set that holds every      *)
(* endpoint and every hour boundary, so a cell lies wholly inside or       *)
(* outside each interval and each hour.                                    *)


HourOf(t) == <<t \div MsPerDay, (t % MsPerDay) \div MsPerHour>>
NearestSecond(ms) == (ms + 500) \div 1000

Finished(idle) == idle.end_time # NULL /\ idle.end_time > idle.start_time
ValidFinished(idles) == {idle \in idles : Finished(idle)}
Counted(row) == row.timestamp # NULL /\ row.timestamp % 1000 = 0 /\ row.duration > 0
EndOfRow(row) == row.timestamp + row.duration * 1000
StartsInWindow(t, date) == date * MsPerDay <= t /\ t < (date + 1) * MsPerDay

RowCovers(row, t) == Counted(row) /\ row.timestamp <= t /\ t < EndOfRow(row)
IdleCovers(idle, t) == idle.start_time <= t /\ t < idle.end_time

Endpoints(rows, idles) ==
    {r.timestamp : r \in rows} \cup {EndOfRow(r) : r \in rows}
    \cup {i.start_time : i \in idles} \cup {i.end_time : i \in idles}
CellsOf(points) ==
    {c \in points \X points : c[1] < c[2] /\ \A r \in points : ~(c[1] < r /\ r < c[2])}
CellLength(c) == c[2] - c[1]

\* the hours an interval between two of the points can touch
HoursOf(points) ==
    IF points = {} THEN {}
    ELSE LET lo == CHOOSE p \in points : \A q \in points : p <= q
             hi == CHOOSE p \in points : \A q \in points : q <= p
         IN {HourOf(h * MsPerHour) : h \in (lo \div MsPerHour)..(hi \div MsPerHour)}
AllCellPoints(points) ==
    IF points = {} THEN {}
    ELSE LET lo == CHOOSE p \in points : \A q \in points : p <= q
             hi == CHOOSE p \in points : \A q \in points : q <= p
         IN points \cup {h * MsPerHour : h \in (lo \div MsPerHour)..(hi \div MsPerHour + 1)}

\* thousandths of a second of the rows labelled app that lie in hour h and in no idle period
ActiveMs(h, app, rows, idles, cells) ==
    LET OfRow(row) ==
            LET Mine(c) == IF /\ RowCovers(row, c[1])
                              /\ HourOf(c[1]) = h
                              /\ \A i \in idles : ~IdleCovers(i, c[1])
                           THEN CellLength(c) ELSE 0
            IN SumOverSet(cells, Mine)
    IN SumOverSet({r \in rows : r.app_name = app}, OfRow)

\* the sum over the idle periods of their overlap with hour h
IdleMs(h, idles, cells) ==
    LET OfIdle(idle) ==
            LET Mine(c) == IF IdleCovers(idle, c[1]) /\ HourOf(c[1]) = h
                           THEN CellLength(c) ELSE 0
            IN SumOverSet(cells, Mine)
    IN SumOverSet(idles, OfIdle)

\* the seconds the table holds under (hour, appName)
Lookup(table, h, app) ==
    SumSeq([i \in DOMAIN table |->
              IF table[i].hour = h /\ table[i].appName = app THEN table[i].duration ELSE 0])

HoursInTable(table) == {table[i].hour : i \in DOMAIN table}
LabelsInTable(table) == {table[i].appName : i \in DOMAIN table}

\* the table agrees with the rows `rows` less the idle periods `subtracted`
\* on every hour of appHours, and its "Idle" rows with the idle periods
\* `idleCounted` on every hour of idleHours
TableAgrees(table, rows, subtracted, idleCounted, appHours, idleHours) ==
    LET points == AllCellPoints(Endpoints({r \in rows : Counted(r)},
                                          subtracted \cup idleCounted))
        cells == CellsOf(points)
        names == {r.app_name : r \in rows} \cup (LabelsInTable(table) \ {"Idle"})
    IN /\ \A h \in appHours : \A app \in names :
              Lookup(table, h, app) = NearestSecond(ActiveMs(h, app, rows, subtracted, cells))
       /\ \A h \in idleHours :
              Lookup(table, h, "Idle") = NearestSecond(IdleMs(h, idleCounted, cells))

HoursOfDay(date) == {<<date, h>> : h \in 0..23}
\* every hour a row of the store or of the table can concern
HoursConcerned ==
    HoursOf(Endpoints({r \in activity_log : Counted(r)}, ValidFinished(idle_periods)))
    \cup HoursInTable(hourlyData)

HourlyCalled == call.name = "hourly"

----------------------------------------------------------------------------
(* Claims on getTrackerHourlyActivityForDate *)

\* C1: for every activity interval that starts inside the queried window and
\* every set of valid finished idle periods, (hour h, app) is credited exactly
\* the seconds of the interval that lie in h and in no idle period, and
\* (h, "Idle") the sum over the idle periods of their overlap with h (here:
\* over the idle periods that start inside the window, the reading that asks
\* least of the "Idle" rows).
C1_CreditsExactSeconds ==
    HourlyCalled =>
        TableAgrees(hourlyData,
                    {r \in activity_log : StartsInWindow(r.timestamp, call.date)},
                    ValidFinished(idle_periods),
                    {i \in ValidFinished(idle_periods) : StartsInWindow(i.start_time, call.date)},
                    HoursConcerned, HoursConcerned)

\* C7: every activity interval and every finished idle period that overlaps
\* the window is taken into account, wherever it starts: on each hour of the
\* queried day the table holds the seconds of all activity intervals less all
\* idle periods, and under "Idle" the seconds of all idle periods.
C7_OverlapAggregated ==
    HourlyCalled =>
        TableAgrees(hourlyData, activity_log,
                    ValidFinished(idle_periods), ValidFinished(idle_periods),
                    HoursOfDay(call.date), HoursOfDay(call.date))

\* What the code does instead: the rows and idle periods taken into account
\* are those whose start lies in the window; each is credited to every hour
\* it touches, the hours of the next day included.
HourlyCreditsOfFetched ==
    HourlyCalled =>
        LET fetched == {i \in ValidFinished(idle_periods) :
                            StartsInWindow(i.start_time, call.date)}
        IN TableAgrees(hourlyData,
                       {r \in activity_log : StartsInWindow(r.timestamp, call.date)},
                       fetched, fetched, HoursConcerned, HoursConcerned)

BadIdle(idle) == idle.end_time = NULL \/ idle.end_time <= idle.start_time

\* C8: an idle period that is still in progress (end is null) or invalid
\* (end <= start) is excluded: the table equals the table computed without
\* that period, it agrees with the activity less the valid finished idle
\* periods alone, and no fragment or row of negative length is produced.
C8_BadIdleExcluded ==
    HourlyCalled =>
        /\ \A bad \in idle_periods :
              BadIdle(bad) =>
                  hourlyData = HourlyActivityOf(results, SelectSeq(idleRows, LAMBDA r : r # bad))
        /\ HourlyCreditsOfFetched
        /\ \A i \in DOMAIN hourlyData : hourlyData[i].duration >= 0
        /\ \A i \in DOMAIN results :
              ~RowSkipped(results[i]) =>
                  \A j \in DOMAIN HourSegments(RowStart(results[i]), RowEnd(results[i])) :
                      LET seg == HourSegments(RowStart(results[i]), RowEnd(results[i]))[j]
                          frags == splitByIdle(IdleRanges(idleRows), seg.start, seg.end)
                      IN \A k \in DOMAIN frags : frags[k].end > frags[k].start

\* C8 witness: the table was computed over a store that holds an in-progress
\* idle period and an invalid one, each starting inside a fetched activity interval
C8_Witness ==
    /\ HourlyCalled
    /\ \E bad \in idle_periods : \E i \in DOMAIN results :
          /\ bad.end_time = NULL
          /\ StartsInWindow(bad.start_time, call.date)
          /\ RowCovers(results[i], bad.start_time)
    /\ \E bad \in idle_periods : \E i \in DOMAIN results :
          /\ bad.end_time # NULL /\ bad.end_time < bad.start_time
          /\ StartsInWindow(bad.start_time, call.date)
          /\ RowCovers(results[i], bad.start_time)
          /\ RowCovers(results[i], bad.end_time)

\* C10: running the aggregation twice over the same rows yields the same
\* table, also when the store returns the rows in another order
C10_SameTableTwice ==
    previousHourly # <<>> => hourlyData = previousHourly[1]

\* the number of the hour a key names, counted from the epoch
HourNumber(h) == h[1] * 24 + h[2]

\* the rows in the order the maps list them, before the sort
UnsortedHourly ==
    LET idleRanges == IdleRanges(idleRows)
    IN AppRows(CreditRows(<<>>, results, idleRanges)) \o IdleOutRows(CreditIdle(<<>>, idleRanges))

\* C11: the table returned by getTrackerHourlyActivityForDate is ascending by
\* hour key, and rows of the same hour are in non-increasing order of their
\* (rounded) duration; it holds the rows the maps hold, no more and no fewer.
C11_SortedByHourThenDuration ==
    HourlyCalled =>
        /\ \A i, j \in DOMAIN hourlyData :
              i < j =>
                  \/ HourNumber(hourlyData[i].hour) < HourNumber(hourlyData[j].hour)
                  \/ /\ hourlyData[i].hour = hourlyData[j].hour
                     /\ hourlyData[i].duration >= hourlyData[j].duration
        /\ Len(hourlyData) = Len(UnsortedHourly)
        /\ Range(hourlyData) = Range(UnsortedHourly)

\* C11 witness: the sort moved rows: two rows of one hour were listed with the
\* shorter first, and a row of an earlier hour was listed after a later one
C11_Witness ==
    /\ HourlyCalled
    /\ \E i, j \in DOMAIN UnsortedHourly :
          /\ i < j
          /\ UnsortedHourly[i].hour = UnsortedHourly[j].hour
          /\ UnsortedHourly[i].duration < UnsortedHourly[j].duration
    /\ \E i, j \in DOMAIN UnsortedHourly :
          /\ i < j
          /\ HourNumber(UnsortedHourly[i].hour) > HourNumber(UnsortedHourly[j].hour)

\* a row that is no interval
BadActivity(row) ==
    \/ row.timestamp = NULL \/ row.timestamp % 1000 # 0
    \/ row.duration \in {NULL, NotNumeric} \/ row.duration <= 0

\* C14: an activity row with an empty or malformed timestamp, or with a zero,
\* negative, missing or non-numeric duration, is skipped: the table equals the
\* table computed without that row, and the other rows are aggregated as they
\* are without it (the table agrees with the well-formed rows fetched).
C14_BadActivitySkipped ==
    HourlyCalled =>
        /\ \A bad \in activity_log :
              BadActivity(bad) =>
                  hourlyData = HourlyActivityOf(SelectSeq(results, LAMBDA r : r # bad), idleRows)
        /\ hourlyData = HourlyActivityOf(SelectSeq(results, LAMBDA r : ~BadActivity(r)), idleRows)
        /\ HourlyCreditsOfFetched

\* C14 witness: a row with a malformed timestamp and a row with a negative
\* duration were fetched along with a well-formed row, which was credited
C14_Witness ==
    /\ HourlyCalled
    /\ \E i, j, k \in DOMAIN results :
          /\ results[i].timestamp % 1000 # 0
          /\ results[j].duration = -1800
          /\ ~BadActivity(results[k])
    /\ hourlyData # <<>>

DaysBackCalled == call.name = "hourlyDaysBack"

\* C17: the days-back hourly table holds under (hour, app) only the seconds
\* of the app's intervals that fall inside that hour: an interval that
\* straddles an hour boundary is split, as the hour splitter would split it
\* with no idle periods (stated for stores whose fetched rows are all
\* well-formed intervals).
C17_DaysBackSplitsHours ==
    DaysBackCalled =>
        LET rows == {r \in activity_log : r.timestamp # NULL /\ r.timestamp >= call.cutoff}
        IN (\A r \in rows : Counted(r)) =>
               /\ TableAgrees(hourlyData, rows, {}, {},
                              HoursOf(Endpoints(rows, {})) \cup HoursInTable(hourlyData), {})
               /\ \A h \in HoursInTable(hourlyData) : \A app \in LabelsInTable(hourlyData) :
                      Lookup(hourlyData, h, app)
                          = Lookup(HourlyActivityOf(SetToSeq(rows), <<>>), h, app)

----------------------------------------------------------------------------
(* The splitter and the idle subtractor on their own: a segment            *)
(* [start, end) and the idle ranges, which the code keeps valid and sorted *)
(* by start.                                                               *)

MaxIdleRanges == 2

SplitTimes == {Midnight + k * HalfHour : k \in -3..3}
SplitRanges == {r \in [start : SplitTimes, end : SplitTimes] : r.end > r.start}
SortedRanges ==
    UNION {{q \in [1..n -> SplitRanges] : \A i \in 1..(n - 1) : q[i].start <= q[i + 1].start}
           : n \in 0..MaxIdleRanges}

InitSplit ==
    /\ splitArgs \in {a \in [start : SplitTimes, end : SplitTimes, idle : SortedRanges]
                        : a.start <= a.end}
    /\ splitOut = [op |-> "none"]
    /\ activity_log = {}
    /\ idle_periods = {}
    /\ input_metrics = {}
    /\ call = NoCall
    /\ results = <<>>
    /\ idleRows = <<>>
    /\ hourlyData = <<>>
    /\ previousHourly = <<>>
    /\ metrics = <<>>
    /\ focusSessions = <<>>
    /\ stats = <<>>
    /\ idleDistribution = <<>>
    /\ NoConnection
    /\ NoComponent

SplitFrame ==
    UNCHANGED <<activity_log, idle_periods, input_metrics, call, results, idleRows,
                hourlyData, previousHourly, metrics, focusSessions, stats, idleDistribution,
                dbVars, uiVars, splitArgs>>

CallSplitByIdle ==
    /\ splitOut' = [op |-> "splitByIdle",
                    fragments |-> splitByIdle(splitArgs.idle, splitArgs.start, splitArgs.end)]
    /\ SplitFrame

CallAddRangeToMap ==
    /\ splitOut' = [op |-> "addRangeToMap",
                    pieces |-> AddRangePieces(splitArgs.start, splitArgs.end),
                    map |-> addRangeToMap(<<>>, splitArgs.start, splitArgs.end)]
    /\ SplitFrame

\* one activity row of (end - start) seconds put through the loop over the rows
CallRowLoop ==
    LET row == [timestamp |-> splitArgs.start, app_name |-> "editor.exe",
                duration |-> (splitArgs.end - splitArgs.start) \div MsPerSecond]
    IN /\ splitOut' = [op |-> "rowLoop",
                       segments |-> IF RowSkipped(row) THEN <<>>
                                    ELSE HourSegments(RowStart(row), RowEnd(row)),
                       map |-> CreditRow(<<>>, row, splitArgs.idle)]
       /\ SplitFrame

NextSplit == CallSplitByIdle \/ CallAddRangeToMap \/ CallRowLoop

SpecSplit == InitSplit /\ [][NextSplit]_vars

----------------------------------------------------------------------------
(* Claims on the splitter and on splitByIdle *)

Lengths(segs) == [i \in DOMAIN segs |-> segs[i].end - segs[i].start]
MapTotal(map) == SumSeq([i \in DOMAIN map |-> map[i].value])
MapKeys(map) == {map[i].key : i \in DOMAIN map}
StartOfHour(h) == h[1] * MsPerDay + h[2] * MsPerHour
\* the length of the part of [s, e) that lies in hour h
OverlapWithHour(s, e, h) ==
    LET lo == IF s > StartOfHour(h) THEN s ELSE StartOfHour(h)
        hi == IF e < StartOfHour(h) + MsPerHour THEN e ELSE StartOfHour(h) + MsPerHour
    IN IF hi > lo THEN hi - lo ELSE 0
InOneHour(seg, h) ==
    /\ StartOfHour(h) <= seg.start
    /\ seg.start < seg.end
    /\ seg.end <= StartOfHour(h) + MsPerHour

\* C2: the hour splitter (addRangeToMap, and the cursor loop over an activity
\* row) emits pieces whose lengths sum to the length of the interval, each
\* inside the hour it is credited to; a zero-length interval emits nothing.
C2_SplitConserves ==
    LET s == splitArgs.start
        e == splitArgs.end
    IN /\ splitOut.op = "addRangeToMap" =>
            /\ SumSeq(Lengths(splitOut.pieces)) = e - s
            /\ \A i \in DOMAIN splitOut.pieces :
                   InOneHour(splitOut.pieces[i], splitOut.pieces[i].hourKey)
            /\ MapTotal(splitOut.map) = e - s
            /\ \A h \in HoursOf({s, e}) \cup MapKeys(splitOut.map) :
                   MapGet(splitOut.map, h, 0) = OverlapWithHour(s, e, h)
            /\ s = e => splitOut.pieces = <<>> /\ splitOut.map = <<>>
       /\ splitOut.op = "rowLoop" =>
            /\ SumSeq(Lengths(splitOut.segments)) = e - s
            /\ \A i \in DOMAIN splitOut.segments :
                   InOneHour(splitOut.segments[i], HourOf(splitOut.segments[i].start))
            /\ splitArgs.idle = <<>> =>
                   LET hourMap == MapGet(splitOut.map, "editor.exe", <<>>)
                   IN /\ MapTotal(hourMap) = e - s
                      /\ \A h \in HoursOf({s, e}) \cup MapKeys(hourMap) :
                             MapGet(hourMap, h, 0) = OverlapWithHour(s, e, h)
            /\ s = e => splitOut.segments = <<>> /\ splitOut.map = <<>>

\* C2 witness: an interval that starts on an hour boundary, ends on one and
\* spans two hours has been split
C2_Witness ==
    /\ splitOut.op = "addRangeToMap"
    /\ splitArgs.start % MsPerHour = 0
    /\ splitArgs.end % MsPerHour = 0
    /\ Len(splitOut.pieces) = 2

\* C3: splitByIdle returns exactly [s, e) less the union of the idle ranges,
\* as fragments sorted by start, pairwise non-overlapping, of positive length,
\* inside [s, e) and disjoint from every idle range; residue + removed overlap
\* = e - s; an idle range that contains [s, e) gives an empty result.
C3_SplitByIdleIsDifference ==
    splitOut.op = "splitByIdle" =>
        LET s == splitArgs.start
            e == splitArgs.end
            f == splitOut.fragments
            idle == Range(splitArgs.idle)
            cells == CellsOf({s, e} \cup {r.start : r \in idle} \cup {r.end : r \in idle})
            inSegment == {c \in cells : s <= c[1] /\ c[1] < e}
            Covered(t) == \E r \in idle : r.start <= t /\ t < r.end
            Removed(c) == IF Covered(c[1]) THEN CellLength(c) ELSE 0
        IN /\ \A k \in DOMAIN f : s <= f[k].start /\ f[k].start < f[k].end /\ f[k].end <= e
           /\ \A k \in 1..(Len(f) - 1) : f[k].end <= f[k + 1].start
           /\ \A k \in DOMAIN f : \A r \in idle : f[k].end <= r.start \/ r.end <= f[k].start
           /\ \A c \in inSegment :
                  (\E k \in DOMAIN f : f[k].start <= c[1] /\ c[2] <= f[k].end) <=> ~Covered(c[1])
           /\ SumSeq(Lengths(f)) + SumOverSet(inSegment, Removed) = e - s
           /\ (\E r \in idle : r.start <= s /\ e <= r.end) => f = <<>>

\* C3 witness: two overlapping idle ranges lying inside the segment were
\* taken out of it, leaving a fragment on each side
C3_Witness ==
    /\ splitOut.op = "splitByIdle"
    /\ Len(splitArgs.idle) = 2
    /\ splitArgs.start < splitArgs.idle[1].start
    /\ splitArgs.idle[1].start < splitArgs.idle[2].start
    /\ splitArgs.idle[2].start < splitArgs.idle[1].end
    /\ splitArgs.idle[1].end < splitArgs.idle[2].end
    /\ splitArgs.idle[2].end < splitArgs.end
    /\ Len(splitOut.fragments) = 2

----------------------------------------------------------------------------
(* The subtraction loop of splitByIdle run over the idle ranges in an     *)
(* order other than the sorted one: at most MaxPermuted ranges on a        *)
(* half-hour grid of two hours.                                            *)

MaxPermuted == 3

PermuteTimes == {Midnight + k * HalfHour : k \in -2..2}
PermuteRanges == {r \in [start : PermuteTimes, end : PermuteTimes] : r.end > r.start}

InitPermute ==
    /\ splitArgs \in {[start |-> seg.start, end |-> seg.end, idle |-> SortByStart(SetToSeq(S))]
                        : seg \in PermuteRanges, S \in UpTo(PermuteRanges, MaxPermuted)}
    /\ splitOut = [op |-> "none"]
    /\ activity_log = {}
    /\ idle_periods = {}
    /\ input_metrics = {}
    /\ call = NoCall
    /\ results = <<>>
    /\ idleRows = <<>>
    /\ hourlyData = <<>>
    /\ previousHourly = <<>>
    /\ metrics = <<>>
    /\ focusSessions = <<>>
    /\ stats = <<>>
    /\ idleDistribution = <<>>
    /\ NoConnection
    /\ NoComponent

\* the body of splitByIdle with idleRanges listed in the given order
CallSplitInOrder ==
    \E order \in Orderings(Range(splitArgs.idle)) :
        /\ splitOut' = [op |-> "splitInOrder", order |-> order,
                        fragments |-> splitByIdle(order, splitArgs.start, splitArgs.end)]
        /\ SplitFrame

NextPermute == CallSplitInOrder

SpecPermute == InitPermute /\ [][NextPermute]_vars

\* C12: whatever the order in which the idle ranges are processed, the
\* subtraction loop of splitByIdle (early exit included) returns the same list
\* of fragments as for the ranges sorted by start.
C12_OrderOfIdleIrrelevant ==
    splitOut.op = "splitInOrder" =>
        splitOut.fragments = splitByIdle(splitArgs.idle, splitArgs.start, splitArgs.end)

\* C12 witness: three idle ranges were processed in an order that is not the
\* sorted one, the first of them cutting the segment in two
C12_Witness ==
    /\ splitOut.op = "splitInOrder"
    /\ Len(splitOut.order) = 3
    /\ splitOut.order # splitArgs.idle
    /\ splitOut.order[1].start > splitOut.order[2].start
    /\ splitArgs.start < splitOut.order[1].start
    /\ splitOut.order[1].end < splitArgs.end
    /\ Len(splitOut.fragments) = 2

----------------------------------------------------------------------------
(* getFocusSessions *)

\* 5 minutes in ms
MAX_GAP == 5 * 60 * 1000

\* WHERE timestamp >= cutoff
MetricFetched(row, cutoff) == row.timestamp >= cutoff

\* ORDER BY timestamp ASC: the rows in an order of non-decreasing timestamp
\* (rows of equal timestamp in either order)
RECURSIVE AscByTimestamp(_)
AscByTimestamp(S) ==
    IF S = {} THEN {<<>>}
    ELSE UNION {{<<first>> \o rest : rest \in AscByTimestamp(S \ {first})}
                : first \in {r \in S : \A x \in S : r.timestamp <= x.timestamp}}

\* SELECT DISTINCT app_name FROM activity_log WHERE timestamp >= ? AND timestamp <= ?
\* (the names as a set: each once, in no order)
SessionApps(log, start, end) ==
    {r.app_name : r \in {x \in log : x.timestamp >= start /\ x.timestamp <= end}}

\* (new Date(current.end).getTime() - new Date(current.start).getTime()) / 1000;
\* the timestamps of the samples are whole seconds
CurrentDuration(current) ==
    LET ms == Minus(GetTime(current.end), GetTime(current.start))
    IN IF ms = NaN THEN NaN ELSE ms \div MsPerSecond

\* duration >= 600, false of NaN
LongEnough(duration) == duration # NaN /\ duration >= 600

MakeSession(current, log) ==
    [startTime |-> current.start,
     endTime |-> current.end,
     duration |-> CurrentDuration(current),
     keystrokes |-> current.keystrokes,
     apps |-> SessionApps(log, current.start, current.end)]

\* closing the current session on a gap: pushed if it lasted 600 s
CloseOnGap(sessions, current, log) ==
    IF LongEnough(CurrentDuration(current)) THEN Append(sessions, MakeSession(current, log))
    ELSE sessions

\* mutant of CloseAtEnd: the session open at the end of the stream is pushed unfiltered
CloseAtEndUnfiltered(sessions, current, log) ==
    Append(sessions, MakeSession(current, log))

\* closing the session still open when the stream ends: the same test, written again
CloseAtEnd(sessions, current, log) ==
    IF LongEnough(CurrentDuration(current)) THEN Append(sessions, MakeSession(current, log))
    ELSE sessions

\* mutant of NewCurrent: a session opens fifteen minutes before its first sample
NewCurrentEarly(metric) ==
    [start |-> metric.timestamp - 3 * MAX_GAP, end |-> metric.timestamp,
     keystrokes |-> metric.keyPresses]

\* mutant of NewCurrent: the keystrokes of the first sample are not counted
NewCurrentNoKeys(metric) ==
    [start |-> metric.timestamp, end |-> metric.timestamp, keystrokes |-> 0]

\* current = { start: metric.timestamp, end: metric.timestamp, keystrokes: metric.keyPresses }
NewCurrent(metric) ==
    [start |-> metric.timestamp, end |-> metric.timestamp, keystrokes |-> metric.keyPresses]

\* mutant of WithinGap: a gap of exactly MAX_GAP closes the session
WithinGapStrict(gap) == gap # NaN /\ gap < MAX_GAP

\* if (gap <= MAX_GAP), false of NaN
WithinGap(gap) == gap # NaN /\ gap <= MAX_GAP

\* the state of the loop: current is <<>> (null) or <<the open session>>
NoSession == [current |-> <<>>, sessions |-> <<>>]

\* the body of the loop over the samples
FocusStep(st, metric, log) ==
    IF st.current = <<>>
    THEN [st EXCEPT !.current = <<NewCurrent(metric)>>]
    ELSE LET current == st.current[1]
             time == GetTime(metric.timestamp)
             gap == Minus(time, GetTime(current.end))
         IN IF WithinGap(gap)
            THEN [st EXCEPT !.current = <<[current EXCEPT !.end = metric.timestamp,
                                                          !.keystrokes = @ + metric.keyPresses]>>]
            ELSE [current |-> <<NewCurrent(metric)>>,
                  sessions |-> CloseOnGap(st.sessions, current, log)]

RECURSIVE FocusLoop(_, _, _)
FocusLoop(st, samples, log) ==
    IF samples = <<>> THEN st
    ELSE FocusLoop(FocusStep(st, Head(samples), log), Tail(samples), log)

\* sessions.sort((a, b) => b.duration - a.duration), a stable sort
RECURSIVE InsertByDuration(_, _)
InsertByDuration(x, sorted) ==
    IF sorted = <<>> THEN <<x>>
    ELSE IF x.duration - Head(sorted).duration > 0 THEN <<x>> \o sorted
    ELSE <<Head(sorted)>> \o InsertByDuration(x, Tail(sorted))

\* mutant of SortByDuration: the sessions are returned in the order they were closed
SortByDurationSkipped(s) == s

RECURSIVE SortByDuration(_)
SortByDuration(s) ==
    IF s = <<>> THEN <<>>
    ELSE InsertByDuration(s[Len(s)], SortByDuration(SubSeq(s, 1, Len(s) - 1)))

\* the sessions pushed by the loop and by the block after it, in that order
SessionsPushed(samples, log) ==
    LET st == FocusLoop(NoSession, samples, log)
    IN IF st.current # <<>> THEN CloseAtEnd(st.sessions, st.current[1], log)
       ELSE st.sessions

\* the body of getFocusSessions after its SELECT of the samples
FocusSessionsOf(samples, log) == SortByDuration(SessionsPushed(samples, log))

\* what a call comes to.  db.prepare(...).all(...) of the apps query runs once
\* for every session that passes the duration test; when the lookup is
\* unavailable it throws, nothing in getFocusSessions catches it, and the
\* promise is rejected.
FocusOutcome(samples, log, appsAvailable) ==
    IF ~appsAvailable /\ SessionsPushed(samples, log) # <<>>
    THEN [outcome |-> "rejected", sessions |-> <<>>]
    ELSE [outcome |-> "resolved", sessions |-> FocusSessionsOf(samples, log)]

----------------------------------------------------------------------------
(* The sample streams and activity rows the detector is run on *)

MaxSamples == 4
MaxFocusActivity == 1

FocusTimes == {t * MsPerSecond : t \in {0, 150, 300, 600, 900, 1200, 1800}}
KeyPressValues == {1, 2}
MetricRows == [timestamp : FocusTimes, keyPresses : KeyPressValues]
FocusCutoffs == {0, 150 * MsPerSecond}
FocusActivityRows ==
    {[timestamp |-> 0, app_name |-> "editor.exe", duration |-> 3600],
     [timestamp |-> 0, app_name |-> "chrome.exe", duration |-> 60],
     [timestamp |-> 600 * MsPerSecond, app_name |-> "editor.exe", duration |-> 60],
     [timestamp |-> 600 * MsPerSecond, app_name |-> "chrome.exe", duration |-> 60]}

InitFocus ==
    /\ input_metrics \in UpTo(MetricRows, MaxSamples)
    /\ activity_log \in UpTo(FocusActivityRows, MaxFocusActivity)
    /\ idle_periods = {}
    /\ call = NoCall
    /\ results = <<>>
    /\ idleRows = <<>>
    /\ hourlyData = <<>>
    /\ previousHourly = <<>>
    /\ metrics = <<>>
    /\ focusSessions = <<>>
    /\ stats = <<>>
    /\ idleDistribution = <<>>
    /\ NoConnection
    /\ NoComponent
    /\ splitArgs = <<>>
    /\ splitOut = <<>>

\* one call of getFocusSessions(daysBack), cutoff being the instant daysBack
\* days ago; the lookup in activity_log is available or not
GetFocusSessions(cutoff, appsAvailable) ==
    \E fetched \in AscByTimestamp({r \in input_metrics : MetricFetched(r, cutoff)}) :
        /\ metrics' = fetched
        /\ focusSessions' = FocusOutcome(fetched, activity_log, appsAvailable).sessions
        /\ call' = [name |-> "focus", cutoff |-> cutoff, appsAvailable |-> appsAvailable,
                    outcome |-> FocusOutcome(fetched, activity_log, appsAvailable).outcome]
        /\ UNCHANGED <<activity_log, idle_periods, input_metrics, results, idleRows,
                       hourlyData, previousHourly, stats, idleDistribution, dbVars, uiVars,
                       splitArgs, splitOut>>

NextFocus ==
    \E cutoff \in FocusCutoffs : \E appsAvailable \in BOOLEAN :
        GetFocusSessions(cutoff, appsAvailable)

SpecFocus == InitFocus /\ [][NextFocus]_vars

----------------------------------------------------------------------------
(* Longer streams, of at most MaxLongSamples samples five minutes apart    *)
(* over forty minutes, some with a timestamp that does not parse: one that *)
(* sorts before every well-formed sample and one that sorts between the    *)
(* samples of 00:05:00 and 00:10:00.                                       *)

MaxLongSamples == 7

LongTimes == {k * MAX_GAP : k \in 0..8}
MalformedTimes == {1, 450 * MsPerSecond + 1}
LongMetricRows == [timestamp : LongTimes \cup MalformedTimes, keyPresses : {1}]

InitFocusLong ==
    /\ input_metrics \in AtMost(LongMetricRows, MaxLongSamples)
    /\ activity_log \in UpTo(FocusActivityRows, MaxFocusActivity)
    /\ idle_periods = {}
    /\ call = NoCall
    /\ results = <<>>
    /\ idleRows = <<>>
    /\ hourlyData = <<>>
    /\ previousHourly = <<>>
    /\ metrics = <<>>
    /\ focusSessions = <<>>
    /\ stats = <<>>
    /\ idleDistribution = <<>>
    /\ NoConnection
    /\ NoComponent
    /\ splitArgs = <<>>
    /\ splitOut = <<>>

SpecFocusLong == InitFocusLong /\ [][NextFocus]_vars

----------------------------------------------------------------------------
(* Claims on getFocusSessions.  A run is a maximal stretch i..j of the      *)
(* fetched samples in which every two consecutive samples are at most 300  *)
(* seconds apart: what a candidate session should be.                      *)

\* a call of getFocusSessions returned a list
FocusCalled == call.name = "focus" /\ call.outcome = "resolved"

SampleGap(k) == metrics[k + 1].timestamp - metrics[k].timestamp
IsRun(i, j) ==
    /\ \A k \in i..(j - 1) : SampleGap(k) <= 300 * 1000
    /\ i = 1 \/ SampleGap(i - 1) > 300 * 1000
    /\ j = Len(metrics) \/ SampleGap(j) > 300 * 1000
Runs == {r \in (DOMAIN metrics) \X (DOMAIN metrics) : r[1] <= r[2] /\ IsRun(r[1], r[2])}
RunSeconds(r) == (metrics[r[2]].timestamp - metrics[r[1]].timestamp) \div 1000
RunKeystrokes(r) == SumSeq([k \in 1..(r[2] - r[1] + 1) |-> metrics[r[1] + k - 1].keyPresses])
SessionOfRun(session, r) ==
    /\ session.startTime = metrics[r[1]].timestamp
    /\ session.endTime = metrics[r[2]].timestamp

\* the open session after the first k samples
OpenAfter(k) == FocusLoop(NoSession, SubSeq(metrics, 1, k), activity_log).current[1]
\* samples k and k + 1 belong to the same session
SameSession(k) == OpenAfter(k + 1).start = OpenAfter(k).start

\* C4, as stated: for every value of maxGapSeconds, two consecutive samples
\* belong to the same session iff their timestamps differ by at most
\* maxGapSeconds (so samples 250 s apart are two sessions when it is 200).
C4_AnyMaxGapSeconds ==
    FocusCalled =>
        \A maxGapSeconds \in {200, 300} :
            \A k \in 1..(Len(metrics) - 1) :
                SameSession(k) <=> SampleGap(k) <= maxGapSeconds * 1000

\* C4, amended: the threshold is the fixed 300 seconds.  Two consecutive
\* samples belong to the same session iff their timestamps differ by at most
\* 300 s; a larger gap starts a new session at the later sample; samples at
\* t=0 and t=250 form one session.
C4_MergeWithinFiveMinutes ==
    /\ FocusCalled =>
          \A k \in 1..(Len(metrics) - 1) :
              /\ SameSession(k) <=> SampleGap(k) <= 300 * 1000
              /\ ~SameSession(k) =>
                     /\ OpenAfter(k + 1).start = metrics[k + 1].timestamp
                     /\ OpenAfter(k + 1).end = metrics[k + 1].timestamp
    /\ FocusCalled =>
          LET st == FocusLoop(NoSession,
                              <<[timestamp |-> 0, keyPresses |-> 1],
                                [timestamp |-> 250 * 1000, keyPresses |-> 1]>>, {})
          IN st.sessions = <<>> /\ st.current[1].start = 0 /\ st.current[1].end = 250 * 1000

\* C4 witness: the detector ran over a stream with a gap of exactly 300 s and a larger one
C4_Witness ==
    /\ FocusCalled
    /\ \E k \in 1..(Len(metrics) - 1) : SampleGap(k) = 300 * 1000
    /\ \E k \in 1..(Len(metrics) - 1) : SampleGap(k) > 300 * 1000

\* C5: a candidate session is in the output iff its last sample is at least
\* 600 s after its first (exactly 600 s is emitted), the session open at the
\* end of the stream included; a session of a single sample is never emitted.
C5_EmittedIffTenMinutes ==
    FocusCalled =>
        LET long == {r \in Runs : RunSeconds(r) >= 600}
        IN /\ \A r \in long : \E i \in DOMAIN focusSessions : SessionOfRun(focusSessions[i], r)
           /\ \A i \in DOMAIN focusSessions : \E r \in long : SessionOfRun(focusSessions[i], r)
           /\ Len(focusSessions) = Cardinality(long)
           /\ \A i \in DOMAIN focusSessions : focusSessions[i].startTime # focusSessions[i].endTime

\* C5 witness: the session open at the end of the stream lasted exactly 600 s
\* and was emitted, and an earlier one, closed by a gap, was dropped
C5_Witness ==
    /\ FocusCalled
    /\ Len(focusSessions) = 1
    /\ focusSessions[1].duration = 600
    /\ focusSessions[1].endTime = metrics[Len(metrics)].timestamp
    /\ focusSessions[1].startTime # metrics[1].timestamp

\* C6: an emitted session starts at its first sample, ends at its last, lasts
\* endTime - startTime seconds, and its keystrokes are the keyPresses of
\* exactly its samples.
C6_SessionFields ==
    FocusCalled =>
        \A i \in DOMAIN focusSessions :
            \E r \in Runs :
                /\ SessionOfRun(focusSessions[i], r)
                /\ focusSessions[i].duration * 1000 =
                       focusSessions[i].endTime - focusSessions[i].startTime
                /\ focusSessions[i].keystrokes = RunKeystrokes(r)

\* C6 witness: a session of three samples was emitted next to a sample of another session
C6_Witness ==
    /\ FocusCalled
    /\ Len(metrics) = 4
    /\ Len(focusSessions) = 1
    /\ \E r \in Runs : SessionOfRun(focusSessions[1], r) /\ r[2] - r[1] = 2
    /\ focusSessions[1].keystrokes = 4

\* C9: apps is the set of the applications whose interval
\* [timestamp, timestamp + duration) intersects [startTime, endTime], an
\* interval that began before startTime and still runs included.
C9_AppsActiveInSession ==
    FocusCalled =>
        \A i \in DOMAIN focusSessions :
            focusSessions[i].apps =
                {r.app_name : r \in {x \in activity_log :
                                        /\ x.timestamp <= focusSessions[i].endTime
                                        /\ x.timestamp + x.duration * 1000
                                               > focusSessions[i].startTime}}

----------------------------------------------------------------------------
(* Claims on getFocusSessions over the longer streams *)

WellFormedSample(metric) == metric.timestamp % 1000 = 0

\* C13: a sample whose timestamp is malformed is skipped: the sessions
\* returned are those returned for the stream without the malformed samples
\* (so a malformed sample between two samples at most 300 s apart neither
\* splits nor removes their session).
C13_MalformedSkipped ==
    (FocusCalled /\ call.appsAvailable) =>
        focusSessions = FocusSessionsOf(SelectSeq(metrics, WellFormedSample), activity_log)

\* C16: when the lookup of a session's applications is unavailable the call
\* still returns every session that passes the duration filter, each with
\* apps empty.
C16_LookupUnavailable ==
    (call.name = "focus" /\ ~call.appsAvailable) =>
        /\ call.outcome = "resolved"
        /\ focusSessions = FocusSessionsOf(metrics, {})

\* C20: the list returned is in non-increasing order of duration, so its
\* first element is a longest session; it holds the sessions that were
\* pushed, no more and no fewer.
C20_SortedByDuration ==
    FocusCalled =>
        /\ \A i, j \in DOMAIN focusSessions :
              i < j => focusSessions[i].duration >= focusSessions[j].duration
        /\ \A i \in DOMAIN focusSessions :
              focusSessions[1].duration >= focusSessions[i].duration
        /\ Len(focusSessions) = Len(SessionsPushed(metrics, activity_log))
        /\ Range(focusSessions) = Range(SessionsPushed(metrics, activity_log))

\* C20 witness: two sessions were pushed, the shorter one first, and returned
C20_Witness ==
    /\ FocusCalled
    /\ Len(SessionsPushed(metrics, activity_log)) = 2
    /\ SessionsPushed(metrics, activity_log)[1].duration
          < SessionsPushed(metrics, activity_log)[2].duration
    /\ Len(focusSessions) = 2

----------------------------------------------------------------------------
(* getTrackerStatsForDate and getTrackerStats *)

RECURSIVE Gcd(_, _)
Gcd(a, b) == IF b = 0 THEN a ELSE Gcd(b, a % b)
Abs(n) == IF n < 0 THEN -n ELSE n

\* a quotient that need not be whole, as the fraction in lowest terms
Fraction(num, den) ==
    LET g == Gcd(Abs(num), den)
    IN IF num = 0 THEN [num |-> 0, den |-> 1] ELSE [num |-> num \div g, den |-> den \div g]

\* SUM(key_presses)
SqlSumKeys(rows) ==
    LET Value(r) == r.keyPresses
    IN IF rows = {} THEN NULL ELSE SumOverSet(rows, Value)

\* AVG(duration): over the values that are not NULL; NULL (the boxed <<>>
\* here) when there is none
SqlAvg(rows) ==
    LET valued == {r \in rows : r.duration # NULL}
    IN IF valued = {} THEN <<>> ELSE <<Fraction(SqlSum(valued), Cardinality(valued))>>

\* mutant of OrZero: the value is passed on as it is
OrZeroKept(value) == value

\* value || 0
OrZero(value) == IF value = NULL THEN 0 ELSE value

\* avgResult?.avg_duration || 0, kept as a fraction
AvgOrZero(rows) ==
    IF SqlAvg(rows) = <<>> THEN Fraction(OrZero(NULL), 1) ELSE SqlAvg(rows)[1]

\* GROUP BY app_name with SUM(duration)
AppGroups(rows) ==
    {[app_name |-> app, total_duration |-> SqlSum({r \in rows : r.app_name = app})]
        : app \in {r.app_name : r \in rows}}

\* ORDER BY total_duration DESC (NULL the smallest, equal totals in either
\* order) LIMIT 3: the lists the query may return
TopAppsResults(rows) ==
    {SubSeq(q, 1, IF Len(q) < 3 THEN Len(q) ELSE 3)
        : q \in {o \in Orderings(AppGroups(rows))
                    : \A i \in 1..(Len(o) - 1) : o[i].total_duration >= o[i + 1].total_duration}}

\* r.app_name || 'Unknown'
AppNameOrUnknown(name) == IF name = "" THEN "Unknown" ELSE name

\* the object returned, given the rows each query matches
StatsOf(totalRows, keyRows, topAppsResults, avgRows) ==
    [totalActiveTime |-> OrZero(SqlSum(totalRows)),
     totalKeystrokes |-> OrZero(SqlSumKeys(keyRows)),
     topApps |-> [i \in DOMAIN topAppsResults |->
                    [name |-> AppNameOrUnknown(topAppsResults[i].app_name),
                     duration |-> topAppsResults[i].total_duration]],
     avgSessionLength |-> AvgOrZero(avgRows),
     sessionsToday |-> OrZero(Cardinality(avgRows))]

\* WHERE timestamp >= ? AND timestamp <= ? on input_metrics
MetricInWindow(row, date) ==
    row.timestamp >= StartOfDay(date) /\ row.timestamp <= EndOfDay(date)

\* the objects getTrackerStatsForDate(date) may return over the two tables
StatsForDate(log, samples, date) ==
    LET rows == {r \in log : ActivityInWindow(r, date)}
    IN {StatsOf(rows, {r \in samples : MetricInWindow(r, date)}, top, rows)
          : top \in TopAppsResults(rows)}

\* date(timestamp) = date('now'): false of a text that is no date
OnDayOf(text, now) ==
    text # NULL /\ ~Malformed(text) /\ text \div MsPerDay = now \div MsPerDay

\* timestamp >= datetime('now', '-7 days'): the texts are compared as strings;
\* datetime() writes "YYYY-MM-DD HH:MM:SS" and the column holds
\* "YYYY-MM-DDTHH:MM:SS...", and "T" sorts after " ", so a row of the day
\* seven days ago matches whatever its time
SinceSevenDays(text, now) ==
    text # NULL /\ text >= StartOfDay((now - 7 * MsPerDay) \div MsPerDay)

\* the objects getTrackerStats() may return at the instant now
StatsNow(log, samples, now) ==
    LET rows == {r \in log : OnDayOf(r.timestamp, now)}
    IN {StatsOf(rows, {r \in samples : OnDayOf(r.timestamp, now)}, top, rows)
          : top \in TopAppsResults({r \in log : SinceSevenDays(r.timestamp, now)})}

----------------------------------------------------------------------------
(* The stores the summarizer is run on: at most MaxStatsRows activity rows *)
(* of day 8 ("today"), of day 1 (seven days before) and of day 0.          *)

MaxStatsRows == 4

Today == 8
StatsDates == {1, Today}
NowTimes == {StartOfDay(Today) + 12 * MsPerHour}
TodayMorning == StartOfDay(Today) + 9 * MsPerHour
StatsActivityRows ==
    [timestamp : {TodayMorning},
     app_name : {"editor.exe", "chrome.exe", "mail.exe", "term.exe"}, duration : {60, 120}]
    \cup [timestamp : {TodayMorning}, app_name : {"editor.exe"}, duration : {0, -60, NULL}]
    \cup [timestamp : {TodayMorning}, app_name : {"", "Unknown"}, duration : {60}]
    \cup [timestamp : {StartOfDay(1) + 6 * MsPerHour, StartOfDay(0) + 6 * MsPerHour},
          app_name : {"editor.exe"}, duration : {60}]
StatsMetricRows ==
    {[timestamp |-> TodayMorning, keyPresses |-> 5],
     [timestamp |-> StartOfDay(0) + 6 * MsPerHour, keyPresses |-> 7]}

InitStats ==
    /\ activity_log \in UpTo(StatsActivityRows, MaxStatsRows)
    /\ input_metrics \in SUBSET StatsMetricRows
    /\ idle_periods = {}
    /\ call = NoCall
    /\ results = <<>>
    /\ idleRows = <<>>
    /\ hourlyData = <<>>
    /\ previousHourly = <<>>
    /\ metrics = <<>>
    /\ focusSessions = <<>>
    /\ stats = <<>>
    /\ idleDistribution = <<>>
    /\ NoConnection
    /\ NoComponent
    /\ splitArgs = <<>>
    /\ splitOut = <<>>

StatsFrame ==
    UNCHANGED <<activity_log, idle_periods, input_metrics, results, idleRows, hourlyData,
                previousHourly, metrics, focusSessions, idleDistribution, dbVars, uiVars,
                splitArgs, splitOut>>

GetTrackerStatsForDate(date) ==
    \E returned \in StatsForDate(activity_log, input_metrics, date) :
        /\ stats' = <<returned>>
        /\ call' = [name |-> "statsForDate", date |-> date]
        /\ StatsFrame

GetTrackerStats(now) ==
    \E returned \in StatsNow(activity_log, input_metrics, now) :
        /\ stats' = <<returned>>
        /\ call' = [name |-> "stats", now |-> now]
        /\ StatsFrame

NextStats ==
    \/ \E date \in StatsDates : GetTrackerStatsForDate(date)
    \/ \E now \in NowTimes : GetTrackerStats(now)

SpecStats == InitStats /\ [][NextStats]_vars

----------------------------------------------------------------------------
(* Claims on the Stats Summarizer *)

StatsCalled == call.name \in {"stats", "statsForDate"}

\* the objects the call made could return over another activity_log
StatsOver(log) ==
    IF call.name = "statsForDate" THEN StatsForDate(log, input_metrics, call.date)
    ELSE StatsNow(log, input_metrics, call.now)

InDay(t, day) == day * MsPerDay <= t /\ t < (day + 1) * MsPerDay

\* the activity rows the queries of the call match: those of the date, or
\* those of today (sums, average, count) and of the last seven days (topApps)
SummedRows ==
    IF call.name = "statsForDate" THEN {r \in activity_log : InDay(r.timestamp, call.date)}
    ELSE {r \in activity_log : InDay(r.timestamp, call.now \div MsPerDay)}
RankedRows ==
    IF call.name = "statsForDate" THEN {r \in activity_log : InDay(r.timestamp, call.date)}
    ELSE {r \in activity_log : r.timestamp >= ((call.now \div MsPerDay) - 7) * MsPerDay}
KeyRows ==
    IF call.name = "statsForDate" THEN {r \in input_metrics : InDay(r.timestamp, call.date)}
    ELSE {r \in input_metrics : InDay(r.timestamp, call.now \div MsPerDay)}

NoInterval(row) == row.duration = NULL \/ row.duration <= 0

\* C15: an activity row whose duration is zero, negative or missing
\* contributes nothing: totalActiveTime, the topApps durations,
\* avgSessionLength and sessionsToday are what they are over the store
\* without that row.
C15_NoIntervalNoContribution ==
    StatsCalled =>
        \A bad \in activity_log :
            NoInterval(bad) =>
                \E other \in StatsOver(activity_log \ {bad}) :
                    /\ other.totalActiveTime = stats[1].totalActiveTime
                    /\ other.topApps = stats[1].topApps
                    /\ other.avgSessionLength = stats[1].avgSessionLength
                    /\ other.sessionsToday = stats[1].sessionsToday

\* C18: when no activity row and no input-metric row matches the window the
\* object returned is all zeros with an empty topApps; no field is null.
C18_EmptyWindowZeros ==
    (StatsCalled /\ SummedRows = {} /\ RankedRows = {} /\ KeyRows = {}) =>
        /\ stats[1].totalActiveTime = 0
        /\ stats[1].totalKeystrokes = 0
        /\ stats[1].topApps = <<>>
        /\ stats[1].avgSessionLength = [num |-> 0, den |-> 1]
        /\ stats[1].sessionsToday = 0

\* C18 witness: the summarizer was run on a window that no row of a
\* non-empty store matches
C18_Witness ==
    /\ StatsCalled
    /\ activity_log # {} /\ input_metrics # {}
    /\ SummedRows = {} /\ RankedRows = {} /\ KeyRows = {}
    /\ stats[1].topApps = <<>>

\* the name an application is listed under
ListedName(row) == IF row.app_name = "" THEN "Unknown" ELSE row.app_name
\* the sum of the durations of the rows of the window listed under name
\* (a missing duration adding nothing)
WindowSum(name) ==
    LET Seconds(r) == r.duration
    IN SumOverSet({r \in RankedRows : ListedName(r) = name /\ r.duration # NULL}, Seconds)

\* C19: topApps has at most 3 entries, with pairwise distinct names, in
\* non-increasing order of duration; each duration is the sum of the
\* durations of that application's rows in the window, and no application
\* left out has a strictly larger sum than a listed one.
C19_TopAppsRanked ==
    StatsCalled =>
        LET top == stats[1].topApps
            names == {top[i].name : i \in DOMAIN top}
        IN /\ Len(top) <= 3
           /\ \A i, j \in DOMAIN top : i # j => top[i].name # top[j].name
           /\ \A i, j \in DOMAIN top : i < j => top[i].duration >= top[j].duration
           /\ \A i \in DOMAIN top : top[i].duration = WindowSum(top[i].name)
           /\ \A r \in RankedRows :
                  ListedName(r) \notin names =>
                      \A i \in DOMAIN top : WindowSum(ListedName(r)) <= top[i].duration

----------------------------------------------------------------------------
(* lib/db/index (getTrackerDb, closeConnections) and an aggregation call   *)
(* that goes through it: GET ?endpoint=stats&date=..., which awaits        *)
(* getTrackerStatsForDate and catches nothing.                             *)

MaxDbRows == 2

\* the prepared statements getTrackerStatsForDate runs, one after the other
StatsQueries == 4

\* getTrackerDb(): if (!trackerDb) it tries new Database(...) once; the catch
\* rethrows.  What it returns and what it leaves in the module's variables.
GetTrackerDbResult(canOpen) ==
    IF trackerDb = 0
    THEN IF canOpen
         THEN [threw |-> FALSE, handle |-> Len(connections) + 1, opens |-> 1,
               connections |-> Append(connections, "open")]
         ELSE [threw |-> TRUE, handle |-> 0, opens |-> 1, connections |-> connections]
    ELSE [threw |-> FALSE, handle |-> trackerDb, opens |-> 0, connections |-> connections]

GetTrackerDb(canOpen) ==
    LET r == GetTrackerDbResult(canOpen)
    IN /\ trackerDb' = r.handle
       /\ connections' = r.connections
       /\ call' = [name |-> "getTrackerDb", threw |-> r.threw, handle |-> r.handle,
                   opens |-> r.opens]
       /\ UNCHANGED <<activity_log, idle_periods, input_metrics, results, idleRows, hourlyData,
                      previousHourly, metrics, focusSessions, stats, idleDistribution, uiVars,
                      splitArgs, splitOut>>

\* closeConnections(): if (trackerDb) trackerDb.close(); the variable keeps the handle
CloseConnections ==
    /\ connections' = IF trackerDb # 0 THEN [connections EXCEPT ![trackerDb] = "closed"]
                      ELSE connections
    /\ call' = [name |-> "closeConnections"]
    /\ UNCHANGED <<activity_log, idle_periods, input_metrics, results, idleRows, hourlyData,
                   previousHourly, metrics, focusSessions, stats, idleDistribution, trackerDb,
                   uiVars, splitArgs, splitOut>>

\* mutant of FetchOutcome: a failed fetch is swallowed and data is returned
FetchOutcomeSwallowed(failing) == "data"

\* a statement that throws ends the call: nothing catches it on the way to the caller
FetchOutcome(failing) == IF failing = 0 THEN "data" ELSE "error"

\* GET with endpoint=stats and a date.  failAt is the statement that fails (0:
\* none); on a closed connection the first statement throws.
GetStats(date, canOpen, failAt) ==
    LET r == GetTrackerDbResult(canOpen)
        failing == IF r.threw THEN 0
                   ELSE IF r.connections[r.handle] # "open" THEN 1 ELSE failAt
        outcome == IF r.threw THEN "error" ELSE FetchOutcome(failing)
    IN \E returned \in StatsForDate(activity_log, input_metrics, date) :
        /\ trackerDb' = r.handle
        /\ connections' = r.connections
        /\ stats' = IF outcome = "data" THEN <<returned>> ELSE <<>>
        /\ call' = [name |-> "GET", date |-> date, outcome |-> outcome,
                    openFailed |-> r.threw, failing |-> failing, opens |-> r.opens,
                    queries |-> IF r.threw THEN 0
                                ELSE IF failing = 0 THEN StatsQueries ELSE failing]
        /\ UNCHANGED <<activity_log, idle_periods, input_metrics, results, idleRows,
                       hourlyData, previousHourly, metrics, focusSessions, idleDistribution,
                       uiVars, splitArgs, splitOut>>

InitDb ==
    /\ activity_log \in UpTo(StatsActivityRows, MaxDbRows)
    /\ input_metrics \in SUBSET StatsMetricRows
    /\ idle_periods = {}
    /\ call = NoCall
    /\ results = <<>>
    /\ idleRows = <<>>
    /\ hourlyData = <<>>
    /\ previousHourly = <<>>
    /\ metrics = <<>>
    /\ focusSessions = <<>>
    /\ stats = <<>>
    /\ idleDistribution = <<>>
    /\ NoConnection
    /\ NoComponent
    /\ splitArgs = <<>>
    /\ splitOut = <<>>

NextDb ==
    \/ \E canOpen \in BOOLEAN : GetTrackerDb(canOpen)
    \/ CloseConnections
    \/ \E date \in StatsDates : \E canOpen \in BOOLEAN : \E failAt \in 0..StatsQueries :
           GetStats(date, canOpen, failAt)

SpecDb == InitDb /\ [][NextDb]_vars

\* C21: when the store cannot be opened or a row fetch fails, the call ends
\* in an error and returns no data, after one attempt: the open was tried at
\* most once, each statement at most once, and none after the failing one.
C21_FailsFastNoRetry ==
    (call.name = "GET" /\ (call.openFailed \/ call.failing # 0)) =>
        /\ call.outcome = "error"
        /\ stats = <<>>
        /\ call.opens <= 1
        /\ call.openFailed => (call.opens = 1 /\ call.queries = 0)
        /\ call.failing # 0 => call.queries = call.failing

\* C21 witness: over a store that holds rows, the third statement of a call failed
C21_Witness ==
    /\ call.name = "GET"
    /\ call.failing = 3
    /\ call.outcome = "error"
    /\ activity_log # {}

\* C27: a handle returned by getTrackerDb is open when it is returned.
C27_ReturnedHandleOpen ==
    (call.name = "getTrackerDb" /\ ~call.threw) =>
        connections[call.handle] = "open"

----------------------------------------------------------------------------
(* The hourly aggregation over stores whose application identifiers are    *)
(* empty, "Unknown" or the label the function gives to idle time.          *)

MaxLabelRows == 3

LabelNames == {"editor.exe", "Idle", "", "Unknown"}
LabelActivityRows ==
    [timestamp : {Midnight - 2 * HalfHour, Midnight - HalfHour}, app_name : LabelNames,
     duration : {1800}]

InitLabels ==
    /\ activity_log \in UpTo(LabelActivityRows, MaxLabelRows)
    /\ idle_periods \in UpTo(IdleRowsOfStore, MaxLabelRows - Cardinality(activity_log))
    /\ input_metrics = {}
    /\ call = NoCall
    /\ results = <<>>
    /\ idleRows = <<>>
    /\ hourlyData = <<>>
    /\ previousHourly = <<>>
    /\ metrics = <<>>
    /\ focusSessions = <<>>
    /\ stats = <<>>
    /\ idleDistribution = <<>>
    /\ NoConnection
    /\ NoComponent
    /\ splitArgs = <<>>
    /\ splitOut = <<>>

SpecLabels == InitLabels /\ [][NextHourly]_vars

\* C22: no two rows of the table have the same (hour, appName), and a row
\* labelled "Idle" carries the seconds of the idle periods taken into account
\* (those that start in the window) in its hour and nothing else.
C22_KeyedByHourAndLabel ==
    HourlyCalled =>
        LET fetched == {i \in ValidFinished(idle_periods) :
                            StartsInWindow(i.start_time, call.date)}
            cells == CellsOf(AllCellPoints(Endpoints({}, fetched)))
        IN /\ \A i, j \in DOMAIN hourlyData :
                  (hourlyData[i].hour = hourlyData[j].hour
                   /\ hourlyData[i].appName = hourlyData[j].appName) => i = j
           /\ \A i \in DOMAIN hourlyData :
                  hourlyData[i].appName = "Idle" =>
                      hourlyData[i].duration
                          = NearestSecond(IdleMs(hourlyData[i].hour, fetched, cells))

----------------------------------------------------------------------------
(* The two hour-splitting loops, one iteration at a time: the while loop   *)
(* of addRangeToMap and the while loop over one activity row.  Both are    *)
(* entered with start < end: addRangeToMap is called on the valid idle     *)
(* ranges only, and a row reaches its loop with durationSeconds > 0.       *)
(* splitArgs is the interval, splitOut the loop's position.                *)

MaxLoopHours == 2

LoopTimes ==
    {Midnight + k * QuarterHour + ms : k \in (-2 * MaxLoopHours)..(2 * MaxLoopHours),
                                       ms \in {0, 1}}
\* more iterations than any interval of LoopTimes has hours
MaxIterations == 2 * MaxLoopHours + 2

InitLoop ==
    /\ splitArgs \in {a \in [start : LoopTimes, end : LoopTimes] : a.start < a.end}
    /\ splitOut \in {[op |-> loop, cursor |-> splitArgs.start, iterations |-> 0,
                       running |-> TRUE, segments |-> <<>>]
                        : loop \in {"addRangeToMap", "rowLoop"}}
    /\ activity_log = {}
    /\ idle_periods = {}
    /\ input_metrics = {}
    /\ call = NoCall
    /\ results = <<>>
    /\ idleRows = <<>>
    /\ hourlyData = <<>>
    /\ previousHourly = <<>>
    /\ metrics = <<>>
    /\ focusSessions = <<>>
    /\ stats = <<>>
    /\ idleDistribution = <<>>
    /\ NoConnection
    /\ NoComponent

\* segmentEnd = rangeEnd < hourEnd ? rangeEnd : hourEnd
SegmentEnd(cursor, end) ==
    LET hourEnd == HourEnd(HourStart(cursor))
    IN IF end < hourEnd THEN end ELSE hourEnd

\* one pass through the body of while (cursor < rangeEnd) in addRangeToMap
AddRangeStep ==
    /\ splitOut.op = "addRangeToMap"
    /\ splitOut.running
    /\ splitOut.cursor < splitArgs.end
    /\ splitOut.iterations < MaxIterations
    /\ LET segmentEnd == SegmentEnd(splitOut.cursor, splitArgs.end)
           durationMs == segmentEnd - splitOut.cursor
       IN splitOut' = [splitOut EXCEPT
                          !.cursor = segmentEnd,
                          !.iterations = @ + 1,
                          !.segments = IF durationMs > 0
                                       THEN Append(@, [start |-> splitOut.cursor,
                                                       end |-> segmentEnd])
                                       ELSE @]
    /\ SplitFrame

\* one pass through the body of while (cursor < end) of the loop over the rows
RowLoopStep ==
    /\ splitOut.op = "rowLoop"
    /\ splitOut.running
    /\ splitOut.cursor < splitArgs.end
    /\ splitOut.iterations < MaxIterations
    /\ LET segmentEnd == SegmentEnd(splitOut.cursor, splitArgs.end)
       IN splitOut' = IF segmentEnd <= splitOut.cursor
                      THEN [splitOut EXCEPT !.running = FALSE, !.iterations = @ + 1]
                      ELSE [splitOut EXCEPT
                               !.cursor = segmentEnd,
                               !.iterations = @ + 1,
                               !.segments = Append(@, [start |-> splitOut.cursor,
                                                       end |-> segmentEnd])]
    /\ SplitFrame

\* the loop condition is false
LoopExit ==
    /\ splitOut.running
    /\ ~(splitOut.cursor < splitArgs.end)
    /\ splitOut' = [splitOut EXCEPT !.running = FALSE]
    /\ SplitFrame

NextLoop == AddRangeStep \/ RowLoopStep \/ LoopExit

SpecLoop == InitLoop /\ [][NextLoop]_vars

\* the loops run synchronously to their end: a pass that can be taken is taken
SpecLoopFair == SpecLoop /\ WF_vars(NextLoop)

\* the hour buckets [start, end) overlaps
HoursTouched(start, end) == (HourStart(end - 1) - HourStart(start)) \div MsPerHour + 1

LoopDone == ~splitOut.running /\ splitOut.cursor = splitArgs.end

\* C23: in both loops every iteration moves the cursor strictly forward and
\* not past the end of the interval, the number of iterations never exceeds
\* the number of hour buckets the interval touches, and the loop ends with
\* the cursor at the end of the interval.
C23_LoopsTerminate ==
    /\ [][splitOut'.iterations > splitOut.iterations =>
              /\ splitOut'.cursor > splitOut.cursor
              /\ splitOut'.cursor <= splitArgs.end]_vars
    /\ [](splitOut.iterations <= HoursTouched(splitArgs.start, splitArgs.end))
    /\ <>LoopDone

\* C23 witness: a loop over an interval that touches three hours has ended
C23_Witness ==
    /\ LoopDone
    /\ splitOut.iterations = 3
    /\ Len(splitOut.segments) = 3

----------------------------------------------------------------------------
(* lib/db/queries: the recursive hour split of getHourlyActivity and the   *)
(* recursive day split of getDailyHeatmap.  Here a timestamp is a whole    *)
(* number of seconds since the epoch (the text 'YYYY-MM-DD HH:MM:SS', which *)
(* orders as the number does), activity_log holds the events of the        *)
(* currentwindow buckets with durations in whole seconds, and results      *)
(* holds the rows of the recursive table.                                  *)

SecPerHour == 3600
SecPerDay == 86400
\* segment < 100  -- Safety limit
SegmentLimit == 100

\* julianday(t) is the double iJD / 86400000.0, iJD being milliseconds since
\* noon of Julian day 0.  Between 2^21 and 2^22 days a double is a multiple of
\* 2^-31 day: JulianFraction is the part of a day after noon, rounded to the
\* nearest multiple (no tie occurs: 86400000 = 2^10 * 84375 and 84375 is odd).
JulianFraction(ms) ==
    LET q == ms \div 84375
        r == ms % 84375
        q1 == (r * 1024) \div 84375
        r1 == (r * 1024) % 84375
    IN q * 2097152 + q1 * 2048 + (2 * r1 * 2048 + 84375) \div (2 * 84375)

julianday(t) ==
    [day |-> (t + SecPerDay \div 2) \div SecPerDay,
     fraction |-> JulianFraction(((t + SecPerDay \div 2) % SecPerDay) * 1000)]

\* CAST((julianday(a) - julianday(b)) * 86400 AS INTEGER): the difference of
\* the two doubles and its product with 86400 are exact, and the cast drops
\* the fraction.  (d * 2^-31 * 86400 = d * 675 / 2^24, taken in two steps.)
CastSeconds(a, b) ==
    LET d == julianday(a).fraction - julianday(b).fraction
        hi == d \div 4096
        lo == d % 4096
        inner == hi * 675 + (lo * 675) \div 4096
        floor == (julianday(a).day - julianday(b).day) * SecPerDay + inner \div 4096
        whole == (lo * 675) % 4096 = 0 /\ inner % 4096 = 0
    IN IF floor < 0 /\ ~whole THEN floor + 1 ELSE floor

BucketStart(t, width) == t - (t % width)
Earlier(a, b) == IF a < b THEN a ELSE b
Later(a, b) == IF a < b THEN b ELSE a

\* the rows of hour_splits (width an hour) or day_splits (width a day) of one
\* event.  The base case is segment 1, in the bucket of the event's start; a
\* row has a successor, one bucket later, while the next bucket starts before
\* event_end and segment is below the limit.  So the segments are 1..last,
\* row k lying in bucket first + (k - 1) * width.
SplitsFrom(event, first, width) ==
    LET event_end == event.timestamp + event.duration
        BucketOf(segment) == first + (segment - 1) * width
        last == Cardinality({k \in 1..SegmentLimit : k = 1 \/ BucketOf(k) < event_end})
        bucket_duration(segment) ==
            IF segment = 1
            THEN CastSeconds(Earlier(event_end, first + width), event.timestamp)
            ELSE CastSeconds(Earlier(event_end, BucketOf(segment) + width),
                             Later(event.timestamp, BucketOf(segment)))
    IN [segment \in 1..last |->
           [app_name |-> event.app_name, bucket |-> BucketOf(segment),
            event_start |-> event.timestamp, event_end |-> event_end,
            bucket_duration |-> bucket_duration(segment), segment |-> segment]]

\* the recursive table over the fetched events
RECURSIVE SplitsOf(_, _)
SplitsOf(events, width) ==
    IF events = <<>> THEN <<>>
    ELSE SplitsFrom(Head(events), BucketStart(Head(events).timestamp, width), width)
         \o SplitsOf(Tail(events), width)

\* SELECT bucket, SUM(bucket_duration) ... WHERE bucket_duration > 0 GROUP BY bucket
SplitGroups(rows) ==
    LET kept == SelectSeq(rows, LAMBDA r : r.bucket_duration > 0)
        Of(b) == LET Duration(i) == kept[i].bucket_duration
                 IN SumOverSet({i \in DOMAIN kept : kept[i].bucket = b}, Duration)
    IN {[bucket |-> b, total_duration |-> Of(b)] : b \in {kept[i].bucket : i \in DOMAIN kept}}

\* ORDER BY bucket DESC (one application: the buckets of the groups differ,
\* and each lies a whole number of widths below the latest)
DescByBucket(groups, width) ==
    IF groups = {} THEN <<>>
    ELSE LET buckets == {g.bucket : g \in groups}
             hi == CHOOSE b \in buckets : \A o \in buckets : o <= b
             lo == CHOOSE b \in buckets : \A o \in buckets : b <= o
             down == SelectSeq([k \in 1..((hi - lo) \div width + 1) |-> hi - (k - 1) * width],
                               LAMBDA b : b \in buckets)
         IN [i \in DOMAIN down |-> CHOOSE g \in groups : g.bucket = down[i]]

\* >4hrs = productive, >2hrs = neutral, else idle
Category(duration) ==
    IF duration > 14400 THEN "productive" ELSE IF duration > 7200 THEN "neutral" ELSE "idle"

MaxEvents == 2

CteTimes == {SecPerDay - 1800, SecPerDay - 1, SecPerDay, SecPerDay + 1800}
CteDurations == {0, 1, 1800, 3600, 5400}
EventRows == [timestamp : CteTimes, app_name : {"editor"}, duration : CteDurations]
\* an event of more than a hundred hours and one of more than a hundred days
LongEvents ==
    [timestamp : {SecPerDay - 1800}, app_name : {"editor"},
     duration : {101 * SecPerHour, 101 * SecPerDay}]
CteCutoffs == {0, SecPerDay}

InitCte ==
    /\ activity_log \in UpTo(EventRows, MaxEvents) \cup {{long} : long \in LongEvents}
    /\ idle_periods = {}
    /\ input_metrics = {}
    /\ call = NoCall
    /\ results = <<>>
    /\ idleRows = <<>>
    /\ hourlyData = <<>>
    /\ previousHourly = <<>>
    /\ metrics = <<>>
    /\ focusSessions = <<>>
    /\ stats = <<>>
    /\ idleDistribution = <<>>
    /\ NoConnection
    /\ NoComponent
    /\ splitArgs = <<>>
    /\ splitOut = <<>>

CteFrame ==
    UNCHANGED <<activity_log, idle_periods, input_metrics, idleRows, previousHourly, metrics,
                focusSessions, stats, idleDistribution, dbVars, uiVars, splitArgs, splitOut>>

\* getHourlyActivity(daysBack), cutoff being datetime('now', '-daysBack days')
GetHourlyActivity(cutoff) ==
    \E events \in Orderings({e \in activity_log : e.timestamp >= cutoff}) :
        LET rows == SplitsOf(events, SecPerHour)
            table == DescByBucket(SplitGroups(rows), SecPerHour)
        IN /\ results' = rows
           /\ hourlyData' = [i \in DOMAIN table |->
                                 [hour |-> table[i].bucket, appName |-> "editor",
                                  duration |-> table[i].total_duration]]
           /\ call' = [name |-> "getHourlyActivity", cutoff |-> cutoff, width |-> SecPerHour]
           /\ CteFrame

\* getDailyHeatmap(daysBack)
GetDailyHeatmap(cutoff) ==
    \E events \in Orderings({e \in activity_log : e.timestamp >= cutoff}) :
        LET rows == SplitsOf(events, SecPerDay)
            table == DescByBucket(SplitGroups(rows), SecPerDay)
        IN /\ results' = rows
           /\ hourlyData' = [i \in DOMAIN table |->
                                 LET duration == table[i].total_duration
                                 IN [date |-> table[i].bucket, totalActive |-> duration,
                                     productive |-> IF Category(duration) = "productive"
                                                    THEN duration ELSE 0,
                                     category |-> Category(duration)]]
           /\ call' = [name |-> "getDailyHeatmap", cutoff |-> cutoff, width |-> SecPerDay]
           /\ CteFrame

NextCte ==
    \/ \E cutoff \in CteCutoffs : GetHourlyActivity(cutoff)
    \/ \E cutoff \in CteCutoffs : GetDailyHeatmap(cutoff)

SpecCte == InitCte /\ [][NextCte]_vars

CteCalled == call.name \in {"getHourlyActivity", "getDailyHeatmap"}

\* the hours (days) of width call.width that [timestamp, timestamp + duration) overlaps
BucketsOverlapped(event, width) ==
    IF event.duration <= 0 THEN {}
    ELSE {BucketStart(event.timestamp, width) + k * width :
            k \in 0..((BucketStart(event.timestamp + event.duration - 1, width)
                        - BucketStart(event.timestamp, width)) \div width)}

\* the segments emitted for an event: its rows that pass bucket_duration > 0
SegmentsOf(event) ==
    SelectSeq(results, LAMBDA r : /\ r.event_start = event.timestamp
                                  /\ r.event_end = event.timestamp + event.duration
                                  /\ r.bucket_duration > 0)

\* C24: for every fetched event the split emits one segment per hour (day)
\* the event overlaps and no other, and the durations of the segments sum
\* to the duration of the event.
C24_SplitCoversEvent ==
    CteCalled =>
        \A event \in {e \in activity_log : e.timestamp >= call.cutoff} :
            LET segments == SegmentsOf(event)
            IN /\ {segments[i].bucket : i \in DOMAIN segments}
                      = BucketsOverlapped(event, call.width)
               /\ Len(segments) = Cardinality(BucketsOverlapped(event, call.width))
               /\ SumSeq([i \in DOMAIN segments |-> segments[i].bucket_duration])
                      = event.duration

----------------------------------------------------------------------------
(* The capacity of an hour in the table of getTrackerHourlyActivityForDate *)

\* the fetched activity rows that have an interval, and the fetched idle
\* periods that have one, are pairwise non-overlapping
FetchedDisjoint ==
    /\ \A i, j \in DOMAIN results :
           (i # j /\ Counted(results[i]) /\ Counted(results[j])) =>
               \/ EndOfRow(results[i]) <= results[j].timestamp
               \/ EndOfRow(results[j]) <= results[i].timestamp
    /\ \A i, j \in DOMAIN idleRows :
           (i # j /\ Finished(idleRows[i]) /\ Finished(idleRows[j])) =>
               \/ idleRows[i].end_time <= idleRows[j].start_time
               \/ idleRows[j].end_time <= idleRows[i].start_time

\* the seconds of all rows of hour h
HourTotal(table, h) ==
    SumSeq([i \in DOMAIN table |-> IF table[i].hour = h THEN table[i].duration ELSE 0])

----------------------------------------------------------------------------
(* The sessions of getFocusSessions against each other *)

\* the fetched stream is chronologically ordered: every timestamp is an instant
Chronological == \A k \in DOMAIN metrics : WellFormedSample(metrics[k])

\* sample k lies in the session
SampleIn(k, session) ==
    session.startTime <= metrics[k].timestamp /\ metrics[k].timestamp <= session.endTime

\* C26: over a chronologically ordered stream any two sessions returned are
\* disjoint in time and more than the gap threshold (300 s) apart, every
\* sample lies in at most one of them, and the keystrokes of a session are
\* those of the samples that lie in it.
C26_SessionsDisjoint ==
    (FocusCalled /\ Chronological) =>
        /\ \A i, j \in DOMAIN focusSessions :
              i # j => \/ focusSessions[i].endTime + MAX_GAP < focusSessions[j].startTime
                       \/ focusSessions[j].endTime + MAX_GAP < focusSessions[i].startTime
        /\ \A k \in DOMAIN metrics :
              Cardinality({i \in DOMAIN focusSessions : SampleIn(k, focusSessions[i])}) <= 1
        /\ \A i \in DOMAIN focusSessions :
              focusSessions[i].keystrokes =
                  SumSeq([k \in DOMAIN metrics |->
                            IF SampleIn(k, focusSessions[i]) THEN metrics[k].keyPresses ELSE 0])

\* C26 witness: two sessions were returned for a chronologically ordered stream
C26_Witness ==
    /\ FocusCalled
    /\ Chronological
    /\ Len(focusSessions) = 2

----------------------------------------------------------------------------
(* The top applications against the total of a stats summary *)

\* C28: when every duration of the store is a non-negative number, the
\* durations listed in topApps sum to at most totalActiveTime.
C28_TopAppsWithinTotal ==
    (StatsCalled /\ \A r \in activity_log : r.duration # NULL /\ r.duration >= 0) =>
        SumSeq([i \in DOMAIN stats[1].topApps |-> stats[1].topApps[i].duration])
            <= stats[1].totalActiveTime

----------------------------------------------------------------------------
(* getIdleDistributionForDate, next to the hourly table, over stores of     *)
(* idle periods that carry their stored duration                           *)

MaxIdleRows == 3

\* CAST(strftime('%H', start_time) AS INTEGER): NULL of a text that is no date
SqlHourOfDay(text) == IF Malformed(text) THEN NULL ELSE (text % MsPerDay) \div MsPerHour

\* SELECT hour, SUM(duration), COUNT(*) ... GROUP BY hour
IdleGroups(rows) ==
    {[hour |-> h,
      totalIdleTime |-> SqlSum({r \in rows : SqlHourOfDay(r.start_time) = h}),
      idleCount |-> Cardinality({r \in rows : SqlHourOfDay(r.start_time) = h})]
        : h \in {SqlHourOfDay(r.start_time) : r \in rows}}

\* ORDER BY hour (the hours of the groups differ; NULL comes first)
RECURSIVE AscByHour(_)
AscByHour(groups) ==
    IF groups = {} THEN <<>>
    ELSE LET first == CHOOSE g \in groups : \A o \in groups : g.hour <= o.hour
         IN <<first>> \o AscByHour(groups \ {first})

IdleDistributionOf(idles, date) ==
    AscByHour(IdleGroups({r \in idles : IdleInWindow(r, date)}))

GetIdleDistributionForDate(date) ==
    /\ idleDistribution' = IdleDistributionOf(idle_periods, date)
    /\ call' = [name |-> "idleDistribution", date |-> date]
    /\ UNCHANGED <<activity_log, idle_periods, input_metrics, results, idleRows, hourlyData,
                   previousHourly, metrics, focusSessions, stats, dbVars, uiVars, splitArgs,
                   splitOut>>

\* an idle period is stored finished, with the seconds from its start to its
\* end, or still in progress, without end and duration
TimedIdleRows ==
    UNION {{[start_time |-> start, end_time |-> start + k * HalfHour, duration |-> k * 1800]
              : k \in 1..2}
           \cup {[start_time |-> start, end_time |-> NULL, duration |-> NULL]}
           : start \in IdleStarts}

InitIdle ==
    /\ idle_periods \in UpTo(TimedIdleRows, MaxIdleRows)
    /\ activity_log = {}
    /\ input_metrics = {}
    /\ call = NoCall
    /\ results = <<>>
    /\ idleRows = <<>>
    /\ hourlyData = <<>>
    /\ previousHourly = <<>>
    /\ metrics = <<>>
    /\ focusSessions = <<>>
    /\ stats = <<>>
    /\ idleDistribution = <<>>
    /\ NoConnection
    /\ NoComponent
    /\ splitArgs = <<>>
    /\ splitOut = <<>>

NextIdle ==
    \/ \E date \in Dates : GetIdleDistributionForDate(date)
    \/ \E date \in Dates : GetTrackerHourlyActivityForDate(date)

SpecIdle == InitIdle /\ [][NextIdle]_vars

\* totalIdleTime of hour h of the day in the distribution (0 when h has no row)
DistributionTotal(distribution, h) ==
    SumSeq([i \in DOMAIN distribution |->
              IF distribution[i].hour = h THEN distribution[i].totalIdleTime ELSE 0])

\* C29: when every idle period of the store is valid and finished and its
\* stored duration is end - start, then for each hour 0..23 of the date the
\* totalIdleTime of the distribution equals the "Idle" seconds of that hour
\* in the table getTrackerHourlyActivityForDate computes for the date.
C29_IdleDistributionAgrees ==
    (/\ call.name = "idleDistribution"
     /\ \A idle \in idle_periods :
            Finished(idle) /\ idle.duration * MsPerSecond = idle.end_time - idle.start_time) =>
        \A fetchedIdle \in Orderings({r \in idle_periods : IdleInWindow(r, call.date)}) :
            \A h \in 0..23 :
                DistributionTotal(idleDistribution, h)
                    = Lookup(HourlyActivityOf(<<>>, fetchedIdle), <<call.date, h>>, "Idle")

----------------------------------------------------------------------------
(* The date-driven components StatsOverview and TimeSeriesChart.  Each has *)
(* a prop selectedDate, a flag loading, what it displays, and the requests *)
(* it has sent and not yet heard of.  call tells the component, how many    *)
(* requests it has issued and whether error has been set (it is never       *)
(* cleared).                                                               *)

MaxFetches == 3

UiDates == {0, 1, 2}
Components == {"StatsOverview", "TimeSeriesChart"}

\* the body of fetchStats / fetchAndRenderChart up to its await: loading = true
\* and a request for the date selectedDate has at that moment
Fetch(date, issued) == [id |-> issued + 1, date |-> date]

\* the component is created: the reactive statement runs once
InitUi ==
    /\ selectedDate \in UiDates
    /\ loading = TRUE
    /\ displayed = <<>>
    /\ inFlight = {Fetch(selectedDate, 0)}
    /\ call \in {[name |-> "created", component |-> c, issued |-> 1, error |-> FALSE]
                    : c \in Components}
    /\ activity_log = {}
    /\ idle_periods = {}
    /\ input_metrics = {}
    /\ results = <<>>
    /\ idleRows = <<>>
    /\ hourlyData = <<>>
    /\ previousHourly = <<>>
    /\ metrics = <<>>
    /\ focusSessions = <<>>
    /\ stats = <<>>
    /\ idleDistribution = <<>>
    /\ NoConnection
    /\ splitArgs = <<>>
    /\ splitOut = <<>>

UiFrame ==
    UNCHANGED <<activity_log, idle_periods, input_metrics, results, idleRows, hourlyData,
                previousHourly, metrics, focusSessions, stats, idleDistribution, dbVars,
                splitArgs, splitOut>>

\* the parent sets selectedDate to another date: $: if (selectedDate) runs the
\* fetch again, whatever is in flight
SetSelectedDate(date) ==
    /\ date # selectedDate
    /\ call.issued < MaxFetches
    /\ selectedDate' = date
    /\ loading' = TRUE
    /\ inFlight' = inFlight \cup {Fetch(date, call.issued)}
    /\ call' = [call EXCEPT !.name = "selected", !.issued = @ + 1]
    /\ UNCHANGED displayed
    /\ UiFrame

\* what the component shows after a response: StatsOverview the stats of the
\* response; TimeSeriesChart the data of the response on the hours of the
\* date selectedDate has when the response is processed
Shown(component, request, current) ==
    [data |-> request.date,
     hours |-> IF component = "TimeSeriesChart" THEN current ELSE request.date]

\* the response to some request in flight arrives and the function resumes
\* after its await: the data is displayed and loading = false; or, if the
\* response is not ok, error is set and loading = false
ResponseArrives(ok) ==
    \E request \in inFlight :
        /\ inFlight' = inFlight \ {request}
        /\ displayed' = IF ok THEN <<Shown(call.component, request, selectedDate)>>
                        ELSE displayed
        /\ loading' = FALSE
        /\ call' = [call EXCEPT !.name = "response", !.error = @ \/ ~ok]
        /\ UNCHANGED selectedDate
        /\ UiFrame

NextUi ==
    \/ \E date \in UiDates : SetSelectedDate(date)
    \/ \E ok \in BOOLEAN : ResponseArrives(ok)

SpecUi == InitUi /\ [][NextUi]_vars

\* C30: once every response has arrived (none of them a failure), the data
\* displayed is the data of the date now selected and loading is false.
C30_ShowsSelectedDate ==
    (inFlight = {} /\ ~call.error) =>
        /\ displayed = <<[data |-> selectedDate, hours |-> selectedDate]>>
        /\ ~loading

====
